---- MODULE Spec2Model ----
(***************************************************************************)
(* Model of the daily synchronisation pipeline of company-analysis:        *)
(*   src/src/tasks/listing_checker.py   registry reconciliation            *)
(*   src/src/tasks/data_fetcher.py      cursor store and incremental fetch *)
(*   src/src/tasks/split_adjustment.py  corporate-action adjustment        *)
(*   src/src/flows/daily_update_flow.py the three-stage orchestrator       *)
(*                                                                         *)
(* Files on disk are variables; every method is an operator that maps the  *)
(* state it reads and the outcome of the external calls it makes to the    *)
(* state it writes and to "returned" or "raised".                          *)
(***************************************************************************)
EXTENDS Integers, Sequences, FiniteSets, TLC

VARIABLES
    now,              \* the clock: ordinal day of ModelYear (datetime.now())
    registry_file,    \* listing/preprocess_data_j.csv: NoFile or the rows' texts
    meta_file,        \* meta/latest_date.json: NoFile or the stored dictionary
    raw_files,        \* raw/prices/<mode>/<file_ticker>.parquet: path -> frame
    processed_files,  \* processed/prices/<ticker>.parquet: ticker -> frame
    feeds,            \* the tables the listing and corporate-action sites serve
    metadata,         \* StockDataFetcher.metadata of each live instance
    pc,               \* position of daily_update_flow
    results,          \* listing_result, fetch_result, adjust_result, summary
    call,             \* the last operation with what it read and requested
    ncalls            \* operations performed so far (bounded by MaxCalls)

vars == <<now, registry_file, meta_file, raw_files, processed_files, feeds,
          metadata, pc, results, call, ncalls>>

----------------------------------------------------------------------------
(* Bounds of the model *)

\* the calendar year the clock runs in
ModelYear == 2024
\* first day of the model's window, as ordinal of ModelYear (30 = January 30)
WindowStart == 30
\* number of days after WindowStart the clock and the data may reach
WindowDays == 2
\* most rows a daily listing feed carries in the model
MaxFeed == 2
\* most operations one behaviour of a component performs
MaxCalls == 2

Days == WindowStart .. (WindowStart + WindowDays)

----------------------------------------------------------------------------
(* Python values *)

\* a path with no file behind it; a file is [exists |-> TRUE, data |-> ...]
NoFile == [exists |-> FALSE]
File(data) == [exists |-> TRUE, data |-> data]

\* None where a "%Y-%m-%d" text is expected
None == <<>>

Digits == {"0", "1", "2", "3", "4", "5", "6", "7", "8", "9"}

\* str values are sequences of characters
C7203 == <<"7", "2", "0", "3">>
C6501 == <<"6", "5", "0", "1">>
C130A == <<"1", "3", "0", "A">>
SuffixT == <<".", "T">>

PyStr(s) == [t |-> "str", v |-> s]
PyInt(s) == [t |-> "int", v |-> s]

\* str.isdigit(): every character a digit, and at least one character
isdigit(s) == Len(s) > 0 /\ \A i \in 1..Len(s) : s[i] \in Digits

\* "." in s
has_dot(s) == \E i \in 1..Len(s) : s[i] = "."

\* s.split(".")[0]
RECURSIVE split_dot_0(_)
split_dot_0(s) ==
    IF s = <<>> \/ Head(s) = "." THEN <<>>
    ELSE <<Head(s)>> \o split_dot_0(Tail(s))

----------------------------------------------------------------------------
(* Dates: the clock is an ordinal day; "%Y-%m-%d" texts are <<y, m, d>>,
   whose zero-padded fields make text order the order of the triples *)

IsLeap(y) == (y % 4 = 0 /\ y % 100 # 0) \/ y % 400 = 0

MonthLen(y, m) ==
    IF m = 2 THEN (IF IsLeap(y) THEN 29 ELSE 28)
    ELSE IF m \in {4, 6, 9, 11} THEN 30 ELSE 31

RECURSIVE ymd(_, _, _)
ymd(y, m, n) ==
    IF n <= MonthLen(y, m) THEN <<y, m, n>>
    ELSE ymd(y, m + 1, n - MonthLen(y, m))

\* datetime.strftime("%Y-%m-%d")
strftime(n) == ymd(ModelYear, 1, n)

RECURSIVE days_before(_, _)
days_before(y, m) ==
    IF m = 1 THEN 0 ELSE days_before(y, m - 1) + MonthLen(y, m - 1)

\* datetime.strptime(s, "%Y-%m-%d")
strptime(s) == days_before(s[1], s[2]) + s[3]

\* a >= b on "%Y-%m-%d" texts (Python compares str character by character)
str_ge(a, b) ==
    \/ a[1] > b[1]
    \/ a[1] = b[1] /\ a[2] > b[2]
    \/ a[1] = b[1] /\ a[2] = b[2] /\ a[3] >= b[3]

\* DefaultDate.OLDEST_AVAILABLE
OLDEST_AVAILABLE == <<1970, 1, 1>>

----------------------------------------------------------------------------
(* Frames: a pandas.DataFrame indexed by Date is the sequence of its rows *)

EmptyFrame == <<>>

\* one daily bar as the price source delivers it
bar(d) == [Date |-> d, Close |-> <<1000, 1>>, Volume |-> <<100, 1>>]

\* the bars of the days lo..hi, ascending
RECURSIVE bars(_, _)
bars(lo, hi) == IF lo > hi THEN EmptyFrame ELSE <<bar(lo)>> \o bars(lo + 1, hi)

\* dict[k] = v
dict_set(d, k, v) == [x \in (DOMAIN d) \cup {k} |-> IF x = k THEN v ELSE d[x]]

EmptyDict == [x \in {} |-> None]

\* no table of any site has a row
NoFeeds == [new |-> <<>>, del |-> <<>>, split |-> <<>>, merger |-> <<>>]

----------------------------------------------------------------------------
(* data_fetcher.py: StockDataFetcher.  A fetcher state F is the record
   [metadata, meta_file, raw_files, requests]: the instance's dictionary, the
   two stores it writes, and the calls of yf.download made so far. *)

EmptyMetadata == [last_updated |-> None, tickers |-> EmptyDict]

\* _load_metadata: the stored dictionary, or the empty one when the file is
\* missing or cannot be read
load_metadata(file, read_ok) ==
    IF file.exists
    THEN (IF read_ok THEN file.data ELSE EmptyMetadata)
    ELSE EmptyMetadata

\* _save_metadata: rewrites the whole file, or raises
save_metadata(F, write_ok) ==
    IF write_ok
    THEN [raised |-> FALSE, F |-> [F EXCEPT !.meta_file = File(F.metadata)]]
    ELSE [raised |-> TRUE, F |-> F]

\* get_latest_date: self.metadata["tickers"].get(ticker)
get_latest_date(md, ticker) ==
    IF ticker.t = "str" /\ ticker.v \in DOMAIN md.tickers
    THEN md.tickers[ticker.v]
    ELSE None

\* yf.download(ticker, start, end): the source's bars (days first..avail)
\* that lie in the requested range
yf_download(avail, start, end) ==
    LET lo == CHOOSE d \in WindowStart .. (avail + 1) :
                  /\ (d = avail + 1 \/ str_ge(strftime(d), start))
                  /\ \A e \in WindowStart .. (d - 1) : ~str_ge(strftime(e), start)
        his == {d \in WindowStart .. avail : str_ge(end, strftime(d))}
        hi == IF his = {} THEN WindowStart - 1
              ELSE CHOOSE d \in his : \A e \in his : e <= d
    IN bars(lo, hi)

\* the ticker fetch_stock_data asks the source for (lines 142-143)
yf_ticker(s) == IF isdigit(s) THEN s \o SuffixT ELSE s

\* fetch_stock_data(ticker, start_date, end_date)
fetch_stock_data(F, ticker, start_date, end_date, today, env) ==
    IF ticker.t # "str"
    THEN \* int has no isdigit(): AttributeError, outside the try
         [raised |-> TRUE, df |-> EmptyFrame, F |-> F]
    ELSE
    LET tk == yf_ticker(ticker.v)
        start == IF start_date = None THEN OLDEST_AVAILABLE ELSE start_date
        end == IF end_date = None THEN strftime(today) ELSE end_date
        df == yf_download(env.avail, start, end)
        F1 == [F EXCEPT !.requests =
                   Append(@, [ticker |-> tk, start |-> start, end |-> end,
                              ok |-> env.download_ok,
                              rows |-> IF env.download_ok THEN df
                                       ELSE EmptyFrame])]
    IN  IF ~env.download_ok
        THEN [raised |-> FALSE, df |-> EmptyFrame, F |-> F1]
        ELSE IF df = EmptyFrame
        THEN [raised |-> FALSE, df |-> EmptyFrame, F |-> F1]
        ELSE
        LET latest_date == strftime(df[Len(df)].Date)
            F2 == [F1 EXCEPT !.metadata =
                      [tickers |-> dict_set(F1.metadata.tickers, tk, latest_date),
                       last_updated |-> strftime(today)]]
            saved == save_metadata(F2, env.meta_write_ok)
        IN  IF saved.raised
            THEN [raised |-> FALSE, df |-> EmptyFrame, F |-> saved.F]
            ELSE [raised |-> FALSE, df |-> df, F |-> saved.F]

\* the file name save_stock_data derives from the ticker (lines 194-197)
file_ticker(s) == IF has_dot(s) THEN split_dot_0(s) ELSE s

\* mutant: save_stock_data without its empty-frame guard (lines 189-191)
save_stock_data_unguarded(F, ticker, data, mode, env) ==
    IF env.raw_write_ok
    THEN [F EXCEPT !.raw_files = dict_set(@, <<mode, file_ticker(ticker.v)>>, data)]
    ELSE F

\* save_stock_data(ticker, data, mode)
save_stock_data(F, ticker, data, mode, env) ==
    IF data = EmptyFrame THEN F
    ELSE IF env.raw_write_ok
    THEN [F EXCEPT !.raw_files = dict_set(@, <<mode, file_ticker(ticker.v)>>, data)]
    ELSE F

\* mutant: the range test of line 233 with > for >=
no_fetch_period_gt(start_date, end_date) ==
    str_ge(start_date, end_date) /\ start_date # end_date

\* mutant: the range test of line 233 with its operands exchanged
no_fetch_period_swapped(start_date, end_date) == str_ge(end_date, start_date)

\* the range test of fetch_and_save_stock_data: start_date >= end_date
no_fetch_period(start_date, end_date) == str_ge(start_date, end_date)

\* fetch_and_save_stock_data(ticker, full_load)
fetch_and_save_stock_data(F, ticker, full_load, today, env) ==
    LET latest_date == get_latest_date(F.metadata, ticker)
    IN  IF full_load \/ latest_date = None
        THEN LET r == fetch_stock_data(F, ticker, None, None, today, env)
             IN  IF r.raised THEN r
                 ELSE [raised |-> FALSE, df |-> r.df,
                       F |-> save_stock_data(r.F, ticker, r.df, "full", env)]
        ELSE LET start_date == strftime(strptime(latest_date) + 1)
                 end_date == strftime(today)
             IN  IF no_fetch_period(start_date, end_date)
                 THEN [raised |-> FALSE, df |-> EmptyFrame, F |-> F]
                 ELSE LET r == fetch_stock_data(F, ticker, start_date, end_date,
                                                today, env)
                      IN  IF r.raised THEN r
                          ELSE [raised |-> FALSE, df |-> r.df,
                                F |-> save_stock_data(r.F, ticker, r.df, "incr", env)]

----------------------------------------------------------------------------
(* The cursor store and the fetcher on their own: a caller (the fetch task
   of stock_flow.py) builds a StockDataFetcher and calls
   fetch_and_save_stock_data on it, as the days pass. *)

\* the code forms a caller passes: digits only, digits with the exchange
\* suffix, and a code with a letter
FetchTickers == {PyStr(C7203), PyStr(C7203 \o SuffixT), PyStr(C130A)}

\* what the outside world does during one call: the source has bars up to day
\* avail, the download, the cursor write and the series write succeed or fail
FetchEnvs(today) ==
    [avail : {WindowStart - 1, today - 1, today},
     download_ok : BOOLEAN, meta_write_ok : BOOLEAN, raw_write_ok : BOOLEAN]

Idle == [op |-> "idle"]

FetcherInit ==
    /\ now = WindowStart
    /\ registry_file = NoFile
    /\ meta_file = NoFile
    /\ raw_files = EmptyDict
    /\ processed_files = EmptyDict
    /\ feeds = NoFeeds
    /\ metadata = <<>>
    /\ pc = "idle"
    /\ results = <<>>
    /\ call = Idle
    /\ ncalls = 0

\* StockDataFetcher.__init__
NewFetcher ==
    /\ \E read_ok \in BOOLEAN :
           metadata' = <<load_metadata(meta_file, read_ok)>>
    /\ call' = [op |-> "init"]
    /\ UNCHANGED <<now, registry_file, meta_file, raw_files, processed_files,
                   feeds, pc, results, ncalls>>

\* one call of fetch_and_save_stock_data on the live instance
FetchAndSave ==
    /\ Len(metadata) = 1
    /\ ncalls < MaxCalls
    /\ ncalls' = ncalls + 1
    /\ \E ticker \in FetchTickers, full_load \in BOOLEAN, env \in FetchEnvs(now) :
           LET F == [metadata |-> metadata[1], meta_file |-> meta_file,
                     raw_files |-> raw_files, requests |-> <<>>]
               r == fetch_and_save_stock_data(F, ticker, full_load, now, env)
           IN  /\ metadata' = <<r.F.metadata>>
               /\ meta_file' = r.F.meta_file
               /\ raw_files' = r.F.raw_files
               /\ call' = [op |-> "fetch_and_save", ticker |-> ticker,
                           full_load |-> full_load,
                           latest |-> get_latest_date(metadata[1], ticker),
                           requests |-> r.F.requests, df |-> r.df,
                           raised |-> r.raised]
    /\ UNCHANGED <<now, registry_file, processed_files, feeds, pc, results>>

\* midnight passes
Tick ==
    /\ now < WindowStart + WindowDays
    /\ now' = now + 1
    /\ call' = [op |-> "tick"]
    /\ UNCHANGED <<registry_file, meta_file, raw_files, processed_files,
                   feeds, metadata, pc, results, ncalls>>

FetcherNext == NewFetcher \/ FetchAndSave \/ Tick

SpecFetcher == FetcherInit /\ [][FetcherNext]_vars

----------------------------------------------------------------------------
(* Claims about the cursor store and the fetcher, under SpecFetcher *)

\* the last operation was a call of fetch_and_save_stock_data
Fetched == call.op = "fetch_and_save"

\* ... with full_load = False that found a cursor for its ticker
FetchedIncr == Fetched /\ ~call.full_load /\ call.latest # None

\* C7: after a fetch for code c that returned a non-empty frame,
\* get_latest_date(c) is the date of the last fetched row, whatever the form
\* of c (digits only included).
C7_CursorReadBackByCode ==
    (Fetched /\ call.df # EmptyFrame) =>
        get_latest_date(metadata[1], call.ticker)
            = strftime(call.df[Len(call.df)].Date)

\* C8 as claimed: with full_load = False and a cursor, the range
\* (cursor + 1 day)..today is requested, and the request is skipped only when
\* the cursor is today or later.
C8_SkippedOnlyFromToday ==
    FetchedIncr =>
        /\ (call.requests = <<>>) <=> (strptime(call.latest) >= now)
        /\ call.requests # <<>> =>
               /\ Len(call.requests) = 1
               /\ call.requests[1].start = strftime(strptime(call.latest) + 1)
               /\ call.requests[1].end = strftime(now)

\* C8 amended: with full_load = False and a cursor, the request is skipped
\* exactly when cursor + 1 day >= today (the cursor is yesterday or later);
\* for every earlier cursor exactly one request is made, for the range
\* (cursor + 1 day)..today.
C8_SkippedFromYesterday ==
    FetchedIncr =>
        /\ (call.requests = <<>>) <=> (strptime(call.latest) + 1 >= now)
        /\ call.requests # <<>> =>
               /\ Len(call.requests) = 1
               /\ call.requests[1].ticker = yf_ticker(call.ticker.v)
               /\ call.requests[1].start = strftime(strptime(call.latest) + 1)
               /\ call.requests[1].end = strftime(now)

\* a cursor before yesterday: the incremental request is made
C8_Witness ==
    /\ FetchedIncr
    /\ strptime(call.latest) + 1 < now
    /\ Len(call.requests) = 1

\* C9: a call with full_load = False whose ticker has a stored cursor of
\* today or later makes no request and writes neither the cursor (in memory
\* or on disk) nor a series file.
C9_NoRequestFromToday ==
    [][(call'.op = "fetch_and_save" /\ ~call'.full_load
            /\ call'.latest # None /\ strptime(call'.latest) >= now)
        => /\ call'.requests = <<>>
           /\ call'.df = EmptyFrame
           /\ metadata' = metadata
           /\ meta_file' = meta_file
           /\ raw_files' = raw_files]_vars

\* a call that found its cursor at today and skipped the request
C9_Witness ==
    /\ FetchedIncr
    /\ strptime(call.latest) >= now
    /\ call.requests = <<>>

\* the price source answered a request of the last call with an empty frame
EmptyResponse(c) ==
    /\ c.op = "fetch_and_save"
    /\ c.requests # <<>>
    /\ c.requests[1].ok
    /\ c.requests[1].rows = EmptyFrame

\* C10: when the price source returns an empty frame, the call returns an
\* empty result, leaves the cursor as it was, in memory and in the cursor
\* file, and writes no series file.
C10_EmptyResponseChangesNothing ==
    [][EmptyResponse(call')
        => /\ call'.df = EmptyFrame
           /\ ~call'.raised
           /\ metadata' = metadata
           /\ meta_file' = meta_file
           /\ raw_files' = raw_files]_vars

\* an empty response to a request for an instrument that has a cursor
C10_Witness ==
    /\ EmptyResponse(call)
    /\ call.latest # None
    /\ meta_file.exists

----------------------------------------------------------------------------
(* listing_checker.py: StockListingChecker.  The registry file holds one text
   row per instrument; a frame in memory holds Python values. *)

\* datetime.date and datetime.datetime (at midnight) of an ordinal day; the
\* two never compare equal, as in Python
PyDate(d) == [k |-> "date", day |-> d]
PyDatetime(d) == [k |-> "datetime", day |-> d]

\* the sequences over S of length at most n
SeqsUpTo(S, n) == UNION {[1..k -> S] : k \in 0..n}

\* pd.read_csv: a column whose every cell is a number is read as integers,
\* any other column as str
read_csv(rows) ==
    IF rows # <<>> /\ \A i \in 1..Len(rows) : isdigit(rows[i].code)
    THEN [i \in 1..Len(rows) |-> [code |-> PyInt(rows[i].code)]]
    ELSE [i \in 1..Len(rows) |-> [code |-> PyStr(rows[i].code)]]

\* DataFrame.to_csv: every cell as its text
to_csv(df) == [i \in 1..Len(df) |-> [code |-> df[i].code.v]]

\* load_existing_data: the registry, or an empty frame when the file is
\* missing or cannot be read
load_existing_data(file, read_ok) ==
    IF ~file.exists THEN EmptyFrame
    ELSE IF read_ok THEN read_csv(file.data) ELSE EmptyFrame

\* save_updated_data: rewrites the file; a failure is logged and swallowed
save_updated_data(file, df, write_ok) ==
    IF write_ok THEN File(to_csv(df)) ELSE file

\* jpx_new_listings / jpx_delisted: the site's table as a frame whose date
\* column holds datetime.strptime(day, "%Y/%m/%d"); raises when the page
\* cannot be retrieved or parsed
jpx_table(table, ok) ==
    IF ok
    THEN [raised |-> FALSE,
          df |-> [i \in 1..Len(table) |->
                     [date |-> PyDatetime(table[i].day),
                      code |-> PyStr(table[i].code)]]]
    ELSE [raised |-> TRUE, df |-> EmptyFrame]

\* mutant: line 122 as datetime.now().date()
listing_today_date(clock) == [raised |-> FALSE, value |-> PyDate(clock)]

\* line 122, datetime.datetime.now().date(): datetime is the class imported
\* by line 2 (from datetime import datetime), which has no attribute
\* datetime, so the expression raises AttributeError
listing_today(clock) == [raised |-> TRUE]

\* df[df[date column] == today] (lines 123-124)
rows_of_day(df, today) == SelectSeq(df, LAMBDA r : r.date = today)

\* code in existing_data[code column].values (lines 132, 151)
in_values(code, df) == \E i \in 1..Len(df) : df[i].code = code

\* lines 127-144: every new listing whose code is not present is appended
RECURSIVE insert_new(_, _)
insert_new(existing, rows) ==
    IF rows = <<>> THEN existing
    ELSE IF in_values(Head(rows).code, existing)
    THEN insert_new(existing, Tail(rows))
    ELSE insert_new(Append(existing, [code |-> Head(rows).code]), Tail(rows))

\* lines 146-153: every row with a delisted code is removed
RECURSIVE remove_delisted(_, _)
remove_delisted(existing, rows) ==
    IF rows = <<>> THEN existing
    ELSE IF in_values(Head(rows).code, existing)
    THEN remove_delisted(
             SelectSeq(existing, LAMBDA r : r.code # Head(rows).code),
             Tail(rows))
    ELSE remove_delisted(existing, Tail(rows))

\* mutant: update_listing_data that appends every listed row and saves, with
\* neither the run-date filter nor the membership test of line 132
update_listing_data_append_all(file, clock, site, env) ==
    LET existing_data == load_existing_data(file, env.read_ok)
        new_listings == jpx_table(site.new, env.new_ok)
    IN  IF new_listings.raised
        THEN [raised |-> TRUE, exc |-> "RequestException", saved |-> FALSE,
              file |-> file]
        ELSE [raised |-> FALSE, exc |-> "none", saved |-> env.write_ok,
              file |-> save_updated_data(file,
                           existing_data \o
                               [i \in 1..Len(new_listings.df) |->
                                   [code |-> new_listings.df[i].code]],
                           env.write_ok)]

\* update_listing_data
update_listing_data(file, clock, site, env) ==
    LET existing_data == load_existing_data(file, env.read_ok)
        new_listings == jpx_table(site.new, env.new_ok)
        delisted == jpx_table(site.del, env.del_ok)
        today == listing_today(clock)
    IN  IF new_listings.raised \/ delisted.raised
        THEN [raised |-> TRUE, exc |-> "RequestException", saved |-> FALSE,
              file |-> file]
        ELSE IF today.raised
        THEN [raised |-> TRUE, exc |-> "AttributeError", saved |-> FALSE,
              file |-> file]
        ELSE
        LET today_new_listings == rows_of_day(new_listings.df, today.value)
            today_delisted == rows_of_day(delisted.df, today.value)
            updated == remove_delisted(
                           insert_new(existing_data, today_new_listings),
                           today_delisted)
        IN  [raised |-> FALSE, exc |-> "none", saved |-> env.write_ok,
             file |-> save_updated_data(file, updated, env.write_ok)]

----------------------------------------------------------------------------
(* The registry and its reconciliation on their own: the listing sites
   publish their tables, and update_listing_data is run against them. *)

RegistryCodes == {C7203, C6501, C130A}

\* the registries a run can start from: no file, or rows with unique codes
RegistryInits ==
    {NoFile} \cup
    {File([i \in 1..Len(q) |-> [code |-> q[i]]]) :
        q \in {q \in SeqsUpTo(RegistryCodes, 2) :
                  \A i, j \in 1..Len(q) : q[i] = q[j] => i = j}}

\* the rows a listing table can carry: dated the run date or the day before
TableRows(today) ==
    {[day |-> today, code |-> C7203], [day |-> today, code |-> C6501],
     [day |-> today - 1, code |-> C7203]}

ListingTables(today) == SeqsUpTo(TableRows(today), MaxFeed)

\* the delisted page carries one row fewer than the new-listings page can
DelistedTables(today) == SeqsUpTo(TableRows(today), MaxFeed - 1)

\* what can fail during one run: reading and writing the registry file,
\* retrieving the two pages
ListingEnvs ==
    [read_ok : BOOLEAN, write_ok : BOOLEAN, new_ok : BOOLEAN, del_ok : BOOLEAN]

\* both pages can be retrieved and the registry file read and written
AllOk(env) == env.read_ok /\ env.write_ok /\ env.new_ok /\ env.del_ok

ListingInit ==
    /\ now = WindowStart + 1
    /\ registry_file \in RegistryInits
    /\ meta_file = NoFile
    /\ raw_files = EmptyDict
    /\ processed_files = EmptyDict
    /\ feeds = NoFeeds
    /\ metadata = <<>>
    /\ pc = "idle"
    /\ results = <<>>
    /\ call = Idle
    /\ ncalls = 0

\* the new-listings page changes
PublishNew ==
    /\ \E table \in ListingTables(now) : feeds' = [feeds EXCEPT !.new = table]
    /\ call' = [op |-> "publish"]
    /\ UNCHANGED <<now, registry_file, meta_file, raw_files, processed_files,
                   metadata, pc, results, ncalls>>

\* the delistings page changes
PublishDelisted ==
    /\ \E table \in DelistedTables(now) : feeds' = [feeds EXCEPT !.del = table]
    /\ call' = [op |-> "publish"]
    /\ UNCHANGED <<now, registry_file, meta_file, raw_files, processed_files,
                   metadata, pc, results, ncalls>>

\* one run of StockListingChecker.update_listing_data
UpdateListingData ==
    /\ \E env \in ListingEnvs :
           LET r == update_listing_data(registry_file, now, feeds, env)
           IN  /\ registry_file' = r.file
               /\ call' = [op |-> "reconcile", env |-> env, raised |-> r.raised,
                           saved |-> r.saved, before |-> registry_file,
                           prev |-> IF call.op = "reconcile"
                                    THEN [run |-> TRUE, ok |-> AllOk(call.env),
                                          saved |-> call.saved]
                                    ELSE [run |-> FALSE, ok |-> FALSE,
                                          saved |-> FALSE]]
    /\ UNCHANGED <<now, meta_file, raw_files, processed_files, feeds,
                   metadata, pc, results, ncalls>>

ListingNext == PublishNew \/ PublishDelisted \/ UpdateListingData

SpecListing == ListingInit /\ [][ListingNext]_vars

----------------------------------------------------------------------------
(* Claims about the registry reconciliation, under SpecListing *)

\* the codes of the rows of a registry file
Codes(file) ==
    IF file.exists THEN {file.data[i].code : i \in 1..Len(file.data)} ELSE {}

\* the codes of the rows of a site's table dated the run date
SameDayCodes(table, today) ==
    {table[i].code : i \in {j \in 1..Len(table) : table[j].day = today}}

\* the last operation was a run of update_listing_data
Reconciled(c) == c.op = "reconcile"

\* the last operation was such a run of update_listing_data
ReconciledOk(c) == Reconciled(c) /\ AllOk(c.env)

\* C4: a run over registry L, same-day new listings N and same-day
\* delistings D persists a registry whose codes are exactly (L \cup N) \ D.
C4_RegistryIsUnionMinusDelisted ==
    ReconciledOk(call) =>
        Codes(registry_file) =
            (Codes(call.before) \cup SameDayCodes(feeds.new, now))
                \ SameDayCodes(feeds.del, now)

C6_RegistryUniquelyKeyed ==
    registry_file.exists =>
        \A i, j \in 1..Len(registry_file.data) :
            registry_file.data[i].code = registry_file.data[j].code => i = j

\* a run over a registry with rows, against a new-listings table that
\* repeats a code on the run date and lists a code that is also delisted
C6_Witness ==
    /\ ReconciledOk(call)
    /\ Codes(call.before) # {}
    /\ \E i, j \in 1..Len(feeds.new) :
           /\ i # j
           /\ feeds.new[i] = feeds.new[j]
           /\ feeds.new[i].day = now
    /\ SameDayCodes(feeds.new, now) \cap SameDayCodes(feeds.del, now) # {}

----------------------------------------------------------------------------
(* split_adjustment.py: SplitAdjustment.  Numbers are exact fractions
   <<numerator, denominator>>; NaN is <<0, 0>>. *)

NaN == <<0, 0>>

RECURSIVE gcd(_, _)
gcd(a, b) == IF b = 0 THEN a ELSE gcd(b, a % b)

\* the fraction n/d in lowest terms; 0/0 is NaN, and so is any product or
\* quotient with NaN
frac(n, d) == LET g == gcd(n, d) IN IF g = 0 THEN NaN ELSE <<n \div g, d \div g>>

mul(x, y) == frac(x[1] * y[1], x[2] * y[2])
div(x, y) == frac(x[1] * y[2], x[2] * y[1])

\* the characters re's \d and float() take as decimal digits: ASCII and
\* full-width; a full-width character is written fw0 .. fw9, fw: (colon)
\* and fw_ (space)
FullWidthDigits == {"fw0", "fw1", "fw2", "fw3", "fw4", "fw5", "fw6", "fw7", "fw8", "fw9"}

digit_value(c) ==
    CASE c \in {"0", "fw0"} -> 0 [] c \in {"1", "fw1"} -> 1
      [] c \in {"2", "fw2"} -> 2 [] c \in {"3", "fw3"} -> 3
      [] c \in {"4", "fw4"} -> 4 [] c \in {"5", "fw5"} -> 5
      [] c \in {"6", "fw6"} -> 6 [] c \in {"7", "fw7"} -> 7
      [] c \in {"8", "fw8"} -> 8 [] c \in {"9", "fw9"} -> 9

\* \d+
all_digits(s) ==
    Len(s) > 0 /\ \A i \in 1..Len(s) : s[i] \in Digits \cup FullWidthDigits

\* the decimal value of a run of digits
RECURSIVE int_value(_)
int_value(s) ==
    IF s = <<>> THEN 0
    ELSE 10 * int_value(SubSeq(s, 1, Len(s) - 1)) + digit_value(s[Len(s)])

RECURSIVE pow10(_)
pow10(k) == IF k = 0 THEN 1 ELSE 10 * pow10(k - 1)

\* the index of the first c in s, or 0
first_index(s, c) ==
    IF \E i \in 1..Len(s) : s[i] = c
    THEN CHOOSE i \in 1..Len(s) : s[i] = c /\ \A j \in 1..(i - 1) : s[j] # c
    ELSE 0

\* \d+(?:\.\d+)?
is_number(s) ==
    LET dot == first_index(s, ".")
    IN  IF dot = 0 THEN all_digits(s)
        ELSE /\ all_digits(SubSeq(s, 1, dot - 1))
             /\ all_digits(SubSeq(s, dot + 1, Len(s)))

\* float(text) of a text that is_number
number_value(s) ==
    LET dot == first_index(s, ".")
    IN  IF dot = 0 THEN frac(int_value(s), 1)
        ELSE LET whole == SubSeq(s, 1, dot - 1)
                 part == SubSeq(s, dot + 1, Len(s))
             IN  frac(int_value(whole) * pow10(Len(part)) + int_value(part),
                      pow10(Len(part)))

\* ratio.replace("fw:", ":").replace(" ", "").replace("fw_", "")
RECURSIVE normalize_ratio(_)
normalize_ratio(s) ==
    IF s = <<>> THEN <<>>
    ELSE IF Head(s) \in {" ", "fw_"} THEN normalize_ratio(Tail(s))
    ELSE <<(IF Head(s) = "fw:" THEN ":" ELSE Head(s))>> \o normalize_ratio(Tail(s))

\* mutant: ratio_to_float dividing right by left
ratio_to_float_inverted(ratio) ==
    IF ratio.t # "str" THEN NaN
    ELSE
    LET pre_ratio == normalize_ratio(ratio.v)
        colon == first_index(pre_ratio, ":")
        left == SubSeq(pre_ratio, 1, colon - 1)
        right == SubSeq(pre_ratio, colon + 1, Len(pre_ratio))
    IN  IF colon = 0 \/ ~is_number(left) \/ ~is_number(right) THEN NaN
        ELSE IF number_value(left)[1] = 0 THEN NaN
        ELSE div(number_value(right), number_value(left))

\* ratio_to_float: NaN for a value that is not a str; for a str, left / right
\* of "left:right", NaN when the text does not match or right is zero
ratio_to_float(ratio) ==
    IF ratio.t # "str" THEN NaN
    ELSE
    LET pre_ratio == normalize_ratio(ratio.v)
        colon == first_index(pre_ratio, ":")
        left == SubSeq(pre_ratio, 1, colon - 1)
        right == SubSeq(pre_ratio, colon + 1, Len(pre_ratio))
    IN  IF colon = 0 \/ ~is_number(left) \/ ~is_number(right) THEN NaN
        ELSE IF number_value(right)[1] = 0 THEN NaN
        ELSE div(number_value(left), number_value(right))

\* scrape_all(type, seldate=1): the site's table with the date parsed and
\* the ratio converted; raises when a page cannot be retrieved
scrape_all(table, ok) ==
    IF ok
    THEN [raised |-> FALSE,
          df |-> [i \in 1..Len(table) |->
                     [date |-> PyDatetime(table[i].day), code |-> table[i].code,
                      ratio |-> ratio_to_float(PyStr(table[i].ratio))]]]
    ELSE [raised |-> TRUE, df |-> EmptyFrame]

\* mutant: load_stock_price returning an empty frame for a missing file
load_stock_price_empty(processed, ticker, read_ok) ==
    IF ticker \in DOMAIN processed
    THEN (IF read_ok THEN [found |-> TRUE, df |-> processed[ticker]]
          ELSE [found |-> FALSE, df |-> EmptyFrame])
    ELSE [found |-> TRUE, df |-> EmptyFrame]

\* load_stock_price: the instrument's series, or None ([found |-> FALSE])
\* when the file is missing or cannot be read
load_stock_price(processed, ticker, read_ok) ==
    IF ticker \in DOMAIN processed /\ read_ok
    THEN [found |-> TRUE, df |-> processed[ticker]]
    ELSE [found |-> FALSE, df |-> EmptyFrame]

\* mutant: save_stock_price that writes nothing
save_stock_price_dropped(processed, ticker, df, write_ok) == processed

\* save_stock_price: rewrites the series file; nothing for an empty frame,
\* and a failure is logged and swallowed
save_stock_price(processed, ticker, df, write_ok) ==
    IF df = EmptyFrame THEN processed
    ELSE IF write_ok THEN dict_set(processed, ticker, df)
    ELSE processed

\* mutant: the mask of line 209 with <= for <
adjust_rows_through_today(df, today, ratio) ==
    [i \in 1..Len(df) |->
        IF df[i].Date <= today
        THEN [Date |-> df[i].Date, Close |-> mul(df[i].Close, ratio),
              Volume |-> div(df[i].Volume, ratio)]
        ELSE df[i]]

\* mutant: line 221 multiplying the volume
adjust_rows_volume_multiplied(df, today, ratio) ==
    [i \in 1..Len(df) |->
        IF df[i].Date < today
        THEN [Date |-> df[i].Date, Close |-> mul(df[i].Close, ratio),
              Volume |-> mul(df[i].Volume, ratio)]
        ELSE df[i]]

\* lines 205-221: rows dated before today get their prices multiplied by the
\* ratio and their volume divided by it (Close stands for Open, High, Low
\* and Close)
adjust_rows(df, today, ratio) ==
    [i \in 1..Len(df) |->
        IF df[i].Date < today
        THEN [Date |-> df[i].Date, Close |-> mul(df[i].Close, ratio),
              Volume |-> div(df[i].Volume, ratio)]
        ELSE df[i]]

\* apply_split_adjustment(ticker, ratio): the stored series and the returned
\* flag
apply_split_adjustment(processed, ticker, ratio, today, env) ==
    LET loaded == load_stock_price(processed, ticker, env.series_read_ok)
    IN  IF ~loaded.found THEN [ok |-> FALSE, processed |-> processed]
        ELSE [ok |-> TRUE,
              processed |-> save_stock_price(processed, ticker,
                                adjust_rows(loaded.df, today, ratio),
                                env.series_write_ok)]

RECURSIVE apply_all(_, _, _, _)
RECURSIVE apply_next(_, _, _, _)

\* the loop's outcome with an earlier record's application put in front
applied_first(entry, rest) == [rest EXCEPT !.applied = <<entry>> \o @]

\* mutant: lines 281-283 taking an invalid ratio as 1.0 instead of skipping
apply_all_defaulting(processed, rows, today, env) ==
    IF rows = <<>> THEN [processed |-> processed, applied |-> <<>>]
    ELSE apply_next(apply_split_adjustment(processed, Head(rows).code,
                        IF Head(rows).ratio = NaN THEN <<1, 1>>
                        ELSE Head(rows).ratio,
                        today, env),
                    rows, today, env)

\* lines 276-286: the actions of today, one after the other, a record with
\* an invalid ratio skipped; applied lists the calls of
\* apply_split_adjustment and what they returned
apply_all(processed, rows, today, env) ==
    IF rows = <<>> THEN [processed |-> processed, applied |-> <<>>]
    ELSE IF Head(rows).ratio = NaN
    THEN apply_all(processed, Tail(rows), today, env)
    ELSE apply_next(apply_split_adjustment(processed, Head(rows).code,
                                           Head(rows).ratio, today, env),
                    rows, today, env)

\* lines 285-286: the call r for the first record is done; the next record
apply_next(r, rows, today, env) ==
    applied_first([code |-> Head(rows).code, ok |-> r.ok],
                  apply_all(r.processed, Tail(rows), today, env))

\* update_split_adjustments returns None after the loop
update_result(r) ==
    [raised |-> FALSE, processed |-> r.processed, applied |-> r.applied]

\* update_split_adjustments
update_split_adjustments(processed, today, site, env) ==
    LET split_df == scrape_all(site.split, env.split_ok)
        merger_df == scrape_all(site.merger, env.merger_ok)
    IN  IF split_df.raised \/ merger_df.raised
        THEN [raised |-> TRUE, processed |-> processed, applied |-> <<>>]
        ELSE
        LET all_df == split_df.df \o merger_df.df
            today_df == SelectSeq(all_df, LAMBDA r : r.date.day = today)
        IN  update_result(apply_all(processed, today_df, today, env))

----------------------------------------------------------------------------
(* daily_update_flow.py: the three tasks and the flow.  A task maps the
   outcome of the method it wraps to [raised, value]: what the task itself
   raises into the flow, and the boolean it returns. *)

\* mutant: update_listing_info without its try/except
update_listing_info_unguarded(r) == [raised |-> r.raised, value |-> TRUE]

\* update_listing_info (lines 37-48): True, or False when
\* update_listing_data raised
update_listing_info(r) == [raised |-> FALSE, value |-> ~r.raised]

\* lines 75-81: fetch_and_save_stock_data for each ticker in turn; a call
\* that raises is logged and not counted
RECURSIVE fetch_loop(_, _, _, _, _, _)
RECURSIVE fetch_next(_, _, _, _, _, _)

\* the loop's outcome with the entry of an earlier instrument put in front
logged(entry, rest) == [rest EXCEPT !.log = <<entry>> \o @]

fetch_loop(F, ticker_codes, i, success_count, today, envs) ==
    IF i > Len(ticker_codes)
    THEN [F |-> F, success_count |-> success_count, log |-> <<>>]
    ELSE fetch_next(fetch_and_save_stock_data(F, ticker_codes[i].code, FALSE,
                        today, envs[((i - 1) % Len(envs)) + 1]),
                    ticker_codes, i, success_count, today, envs)

\* mutant: the loop of lines 75-81 without the try/except of lines 76-81, an
\* instrument's exception ending the loop
fetch_next_propagating(r, ticker_codes, i, success_count, today, envs) ==
    IF r.raised
    THEN [F |-> r.F, success_count |-> success_count,
          log |-> <<[ticker |-> ticker_codes[i].code, raised |-> TRUE,
                     rows |-> 0]>>]
    ELSE logged([ticker |-> ticker_codes[i].code, raised |-> FALSE,
                 rows |-> Len(r.df)],
                fetch_loop(r.F, ticker_codes, i + 1, success_count + 1,
                           today, envs))

\* lines 77-81: success_count += 1 unless the call r raised; the next ticker.
\* log lists, per instrument in registry order, whether its call raised and
\* how many rows it fetched
fetch_next(r, ticker_codes, i, success_count, today, envs) ==
    logged([ticker |-> ticker_codes[i].code, raised |-> r.raised,
            rows |-> Len(r.df)],
           fetch_loop(r.F, ticker_codes, i + 1,
                      IF r.raised THEN success_count ELSE success_count + 1,
                      today, envs))

\* StockDataFetcher() (data_fetcher.py lines 62-69): a new instance over the
\* stores, its dictionary loaded from the cursor file
StockDataFetcher(meta, raw, read_ok) ==
    [metadata |-> load_metadata(meta, read_ok), meta_file |-> meta,
     raw_files |-> raw, requests |-> <<>>]

\* lines 75-81 over the registry's codes with a new fetcher
fetch_all(registry, meta, raw, today, env) ==
    fetch_loop(StockDataFetcher(meta, raw, env.meta_read_ok),
               load_existing_data(registry, env.read_ok), 1, 0, today,
               env.per_ticker)

\* line 83: return success_count > 0
task_result(r) ==
    [raised |-> FALSE, value |-> r.success_count > 0, F |-> r.F, log |-> r.log]

\* fetch_stock_data of daily_update_flow.py (lines 56-87): False when the
\* registry is empty, else whether any instrument's call returned
daily_fetch_stock_data(registry, meta, raw, today, env) ==
    IF load_existing_data(registry, env.read_ok) = EmptyFrame
    THEN [raised |-> FALSE, value |-> FALSE,
          F |-> [metadata |-> EmptyMetadata, meta_file |-> meta,
                 raw_files |-> raw, requests |-> <<>>],
          log |-> <<>>]
    ELSE task_result(fetch_all(registry, meta, raw, today, env))

\* adjust_stock_splits (lines 95-106): True, or False when
\* update_split_adjustments raised
adjust_stock_splits(r) == [raised |-> FALSE, value |-> ~r.raised]

\* mutant: line 126 without the test of listing_result
run_fetch_stage_always(listing_result) == TRUE

\* line 126: if listing_result
run_fetch_stage(listing_result) == listing_result

\* line 133: if listing_result and fetch_result
run_adjust_stage(listing_result, fetch_result) == listing_result /\ fetch_result

\* sum([listing_result, fetch_result, adjust_result])
total_success(l, f, a) ==
    (IF l THEN 1 ELSE 0) + (IF f THEN 1 ELSE 0) + (IF a THEN 1 ELSE 0)

\* mutant: line 147 counting the results instead of the successes
overall_success_len(l, f, a) == Len(<<l, f, a>>) = 3

\* line 147: total_success == 3
overall_success(l, f, a) == total_success(l, f, a) = 3

\* the dictionary the flow returns (lines 143-148)
flow_summary(l, f, a) ==
    [listing_update |-> l, stock_data_fetch |-> f, split_adjustment |-> a,
     overall_success |-> overall_success(l, f, a)]

----------------------------------------------------------------------------
(* One run of daily_update_flow over the stores and the sites as they are *)

\* what can fail while the fetch task runs: reading the registry and the
\* cursor file, and each instrument's calls
DailyFetchEnvs(today) ==
    [read_ok : BOOLEAN, meta_read_ok : BOOLEAN,
     per_ticker : [1..2 -> FetchEnvs(today)]]

\* what can fail while the adjust task runs
AdjustEnvs ==
    [split_ok : BOOLEAN, merger_ok : BOOLEAN,
     series_read_ok : BOOLEAN, series_write_ok : BOOLEAN]

\* the corporate-action tables of the run date: none, or a 2:1 split of 7203
SplitTables(today) ==
    {<<>>, <<[day |-> today, code |-> C7203, ratio |-> <<"2", ":", "1">>]>>}

FlowInit ==
    /\ now = WindowStart + 1
    /\ registry_file \in RegistryInits
    /\ meta_file \in {NoFile,
                      File([last_updated |-> strftime(now - 1),
                            tickers |-> dict_set(EmptyDict, C7203 \o SuffixT,
                                                 strftime(now - 1))])}
    /\ raw_files = EmptyDict
    /\ processed_files \in {EmptyDict, dict_set(EmptyDict, C7203, bars(now - 1, now))}
    /\ feeds \in [new : ListingTables(now), del : DelistedTables(now),
                  split : SplitTables(now), merger : {<<>>}]
    /\ metadata = <<>>
    /\ pc = "listing"
    /\ results = [stages |-> <<>>, ret |-> <<>>, raised |-> FALSE]
    /\ call = Idle
    /\ ncalls = 0

\* the record of a stage: whether its task ran and the result the flow holds
Stage(name, ran, result, exc) ==
    [stage |-> name, ran |-> ran, result |-> result, exc |-> exc]

\* line 123: listing_result = update_listing_info()
FlowListing ==
    /\ pc = "listing"
    /\ \E env \in ListingEnvs :
           LET r == update_listing_data(registry_file, now, feeds, env)
               t == update_listing_info(r)
           IN  /\ registry_file' = r.file
               /\ IF t.raised
                  THEN /\ pc' = "raised"
                       /\ results' = [results EXCEPT !.raised = TRUE]
                  ELSE /\ pc' = "fetch"
                       /\ results' = [results EXCEPT !.stages =
                              Append(@, Stage("listing", TRUE, t.value, r.exc))]
    /\ UNCHANGED <<now, meta_file, raw_files, processed_files, feeds, metadata,
                   call, ncalls>>

\* lines 126-130: the fetch task, or False without running it
FlowFetch ==
    /\ pc = "fetch"
    /\ IF run_fetch_stage(results.stages[1].result)
       THEN \E env \in DailyFetchEnvs(now) :
                \E t \in {daily_fetch_stock_data(registry_file, meta_file,
                                                 raw_files, now, env)} :
                    /\ meta_file' = t.F.meta_file
                    /\ raw_files' = t.F.raw_files
                    /\ metadata' = <<t.F.metadata>>
                    /\ results' = [results EXCEPT !.stages =
                           Append(@, Stage("fetch", TRUE, t.value, "none"))]
       ELSE /\ results' = [results EXCEPT !.stages =
                   Append(@, Stage("fetch", FALSE, FALSE, "none"))]
            /\ UNCHANGED <<meta_file, raw_files, metadata>>
    /\ pc' = "adjust"
    /\ UNCHANGED <<now, registry_file, processed_files, feeds, call, ncalls>>

\* lines 133-137: the adjust task, or False without running it
FlowAdjust ==
    /\ pc = "adjust"
    /\ IF run_adjust_stage(results.stages[1].result, results.stages[2].result)
       THEN \E env \in AdjustEnvs :
                \E r \in {update_split_adjustments(processed_files, now, feeds,
                                                   env)} :
                \E t \in {adjust_stock_splits(r)} :
                    /\ processed_files' = r.processed
                    /\ results' = [results EXCEPT !.stages =
                           Append(@, Stage("adjust", TRUE, t.value,
                                           IF r.raised THEN "RequestException"
                                           ELSE "none"))]
       ELSE /\ results' = [results EXCEPT !.stages =
                   Append(@, Stage("adjust", FALSE, FALSE, "none"))]
            /\ UNCHANGED processed_files
    /\ pc' = "summary"
    /\ UNCHANGED <<now, registry_file, meta_file, raw_files, feeds, metadata,
                   call, ncalls>>

\* lines 139-148: the summary is returned
FlowSummary ==
    /\ pc = "summary"
    /\ results' = [results EXCEPT !.ret =
           <<flow_summary(results.stages[1].result, results.stages[2].result,
                          results.stages[3].result)>>]
    /\ pc' = "done"
    /\ UNCHANGED <<now, registry_file, meta_file, raw_files, processed_files,
                   feeds, metadata, call, ncalls>>

FlowNext == FlowListing \/ FlowFetch \/ FlowAdjust \/ FlowSummary

SpecFlow == FlowInit /\ [][FlowNext]_vars

----------------------------------------------------------------------------
(* The flow's contract *)

Stages == results.stages

StageOrder == <<"listing", "fetch", "adjust">>

\* the run has returned its summary
Returned == pc = "done" /\ Len(results.ret) = 1

\* the stages recorded so far are the first of Reconcile, Fetch, Adjust in
\* that order; a later stage ran only after True from the earlier ones; a
\* skipped stage holds False; the summary reports the three results
StagesInOrder ==
    /\ Len(Stages) <= 3
    /\ \A i \in 1..Len(Stages) : Stages[i].stage = StageOrder[i]
    /\ Len(Stages) >= 2 /\ Stages[2].ran => Stages[1].result
    /\ Len(Stages) >= 3 /\ Stages[3].ran => Stages[1].result /\ Stages[2].result
    /\ \A i \in 1..Len(Stages) : ~Stages[i].ran => ~Stages[i].result
    /\ results.ret # <<>> =>
           /\ Len(Stages) = 3
           /\ results.ret[1].listing_update = Stages[1].result
           /\ results.ret[1].stock_data_fetch = Stages[2].result
           /\ results.ret[1].split_adjustment = Stages[3].result

\* a store changes only in the step of the stage that writes it, and only
\* when that stage's task ran
WritesOnlyByRunStage ==
    /\ registry_file' # registry_file => pc = "listing"
    /\ (meta_file' # meta_file \/ raw_files' # raw_files \/ metadata' # metadata)
           => pc = "fetch" /\ Stages'[2].ran
    /\ processed_files' # processed_files => pc = "adjust" /\ Stages'[3].ran

\* C1: the stages run in the order Reconcile, Fetch, Adjust; Fetch runs only
\* after True from Reconcile and Adjust only after True from both; a skipped
\* stage is reported False and writes no cursor, series or registry
C1_StagesGatedInOrder ==
    [][/\ StagesInOrder'
       /\ WritesOnlyByRunStage
       /\ \A l, f \in BOOLEAN : /\ run_fetch_stage(l) => l
                                /\ run_adjust_stage(l, f) => l /\ f]_vars

\* a finished run that skipped Fetch and Adjust although a split of a stored
\* series was published that day
C1_Witness ==
    /\ Returned
    /\ ~Stages[2].ran /\ ~Stages[3].ran
    /\ ~results.ret[1].stock_data_fetch /\ ~results.ret[1].split_adjustment
    /\ feeds.split # <<>> /\ processed_files # EmptyDict
    /\ meta_file # NoFile

\* C2: the reported overall_success is True exactly when listing_update,
\* stock_data_fetch and split_adjustment are all True
C2_OverallIffAllThree ==
    /\ \A l, f, a \in BOOLEAN :
           flow_summary(l, f, a).overall_success = (l /\ f /\ a)
    /\ results.ret # <<>> =>
           results.ret[1].overall_success =
               (/\ results.ret[1].listing_update
                /\ results.ret[1].stock_data_fetch
                /\ results.ret[1].split_adjustment)

\* a returned summary whose overall_success is False
C2_Witness ==
    /\ Returned
    /\ ~results.ret[1].listing_update
    /\ ~results.ret[1].overall_success

\* C3: whatever fails inside the stages, the flow raises nothing to its
\* caller and goes on until it has returned the four-boolean summary
C3_AlwaysReturnsSummary ==
    /\ ~results.raised
    /\ pc # "raised"
    /\ pc = "done" =>
           /\ Len(results.ret) = 1
           /\ results.ret[1] \in [listing_update : BOOLEAN,
                                  stock_data_fetch : BOOLEAN,
                                  split_adjustment : BOOLEAN,
                                  overall_success : BOOLEAN]
    /\ pc # "done" => results.ret = <<>> /\ ENABLED FlowNext

\* a run that returned its summary after the retrieval of a listing page
\* failed
C3_Witness ==
    /\ Returned
    /\ Stages[1].exc = "RequestException"
    /\ results.ret[1] = flow_summary(FALSE, FALSE, FALSE)

----------------------------------------------------------------------------
(* The fetch task of daily_update_flow.py on its own: one run over a
   registry, a cursor file and the price source as they are that day *)

\* the cursor files a run can find: none, or a cursor of 130A on the first
\* day of the window
StageCursors ==
    {NoFile,
     File([last_updated |-> strftime(WindowStart),
           tickers |-> dict_set(EmptyDict, C130A, strftime(WindowStart))])}

FetchStageInit ==
    /\ now \in (WindowStart + 1) .. (WindowStart + WindowDays)
    /\ registry_file \in RegistryInits
    /\ meta_file \in StageCursors
    /\ raw_files = EmptyDict
    /\ processed_files = EmptyDict
    /\ feeds = NoFeeds
    /\ metadata = <<>>
    /\ pc = "fetch"
    /\ results = <<>>
    /\ call = Idle
    /\ ncalls = 0

\* the task fetch_stock_data of daily_update_flow.py runs
DailyFetch ==
    /\ pc = "fetch"
    /\ pc' = "fetched"
    /\ \E env \in DailyFetchEnvs(now) :
       \E t \in {daily_fetch_stock_data(registry_file, meta_file, raw_files,
                                        now, env)} :
           /\ meta_file' = t.F.meta_file
           /\ raw_files' = t.F.raw_files
           /\ metadata' = <<t.F.metadata>>
           /\ call' = [op |-> "fetch_stage", env |-> env,
                       codes |-> load_existing_data(registry_file, env.read_ok),
                       raised |-> t.raised, value |-> t.value, log |-> t.log,
                       requests |-> t.F.requests, before |-> raw_files,
                       meta_before |-> meta_file]
    /\ UNCHANGED <<now, registry_file, processed_files, feeds, results, ncalls>>

FetchStageNext == DailyFetch

SpecFetchStage == FetchStageInit /\ [][FetchStageNext]_vars

\* the last operation was a run of the fetch task
FetchStageRan(c) == c.op = "fetch_stage"

\* what the outside world did during the call for the i-th instrument
InstrumentEnv(c, i) == c.env.per_ticker[((i - 1) % Len(c.env.per_ticker)) + 1]

\* the stored series under a key, <<>> when there is none
SeriesAt(files, key) == IF key \in DOMAIN files THEN <<files[key]>> ELSE <<>>

\* the download or the cursor write of the i-th instrument failed
FetchFailed(c, i) ==
    /\ c.codes[i].code.t = "str"
    /\ ~InstrumentEnv(c, i).download_ok \/ ~InstrumentEnv(c, i).meta_write_ok

\* C11: an error while fetching one instrument counts as zero rows for it,
\* raises nothing out of the loop, and every instrument of the registry is
\* still processed in the same run
C11_InstrumentErrorIsolated ==
    FetchStageRan(call) =>
        /\ ~call.raised
        /\ Len(call.log) = Len(call.codes)
        /\ \A i \in 1..Len(call.log) :
               /\ call.log[i].ticker = call.codes[i].code
               /\ FetchFailed(call, i) =>
                      /\ ~call.log[i].raised
                      /\ call.log[i].rows = 0
                      /\ \A mode \in {"full", "incr"} :
                             SeriesAt(raw_files,
                                 <<mode, file_ticker(call.codes[i].code.v)>>)
                             = SeriesAt(call.before,
                                 <<mode, file_ticker(call.codes[i].code.v)>>)

\* a run in which the download of the first instrument failed and the second
\* instrument's rows were fetched and stored
C11_Witness ==
    /\ FetchStageRan(call)
    /\ Len(call.log) = 2
    /\ FetchFailed(call, 1)
    /\ ~InstrumentEnv(call, 1).download_ok
    /\ call.log[2].rows > 0
    /\ SeriesAt(raw_files, <<"full", file_ticker(call.codes[2].code.v)>>) # <<>>

----------------------------------------------------------------------------
(* data_processor.py: StockDataProcessor.  The raw series files are keyed
   <<mode, file_ticker>> (raw/prices/<mode>/<file_ticker>.parquet), the
   processed ones by file_ticker (processed/prices/<file_ticker>.parquet). *)

\* load_raw_stock_data(ticker, mode): the raw file of that mode, or an empty
\* frame when it is missing or cannot be read
load_raw_stock_data(raw, ticker, mode, read_ok) ==
    IF <<mode, file_ticker(ticker)>> \notin DOMAIN raw THEN EmptyFrame
    ELSE IF read_ok THEN raw[<<mode, file_ticker(ticker)>>]
    ELSE EmptyFrame

\* df.fillna(method="ffill"): a missing value takes the last value above it
RECURSIVE ffill(_, _)
ffill(df, last) ==
    IF df = <<>> THEN <<>>
    ELSE IF Head(df).Close = NaN
    THEN <<[Head(df) EXCEPT !.Close = last]>> \o ffill(Tail(df), last)
    ELSE <<Head(df)>> \o ffill(Tail(df), Head(df).Close)

reversed(df) == [i \in 1..Len(df) |-> df[Len(df) + 1 - i]]

\* df.fillna(method="bfill")
bfill(df) == reversed(ffill(reversed(df), NaN))

\* lines 134-144: forward fill, then backward fill of what is still missing
fillna(df) == bfill(ffill(df, NaN))

\* df[~df.index.duplicated(keep="last")]
RECURSIVE drop_duplicated_keep_last(_)
drop_duplicated_keep_last(df) ==
    IF df = <<>> THEN <<>>
    ELSE IF \E j \in 2..Len(df) : df[j].Date = df[1].Date
    THEN drop_duplicated_keep_last(Tail(df))
    ELSE <<Head(df)>> \o drop_duplicated_keep_last(Tail(df))

\* the row put into a frame sorted by date, after the rows not later than it
insert_sorted(row, sorted) ==
    [i \in 1..(Len(sorted) + 1) |->
        IF i <= Cardinality({j \in 1..Len(sorted) : sorted[j].Date <= row.Date})
        THEN sorted[i]
        ELSE IF i = Cardinality({j \in 1..Len(sorted) :
                                    sorted[j].Date <= row.Date}) + 1
        THEN row
        ELSE sorted[i - 1]]

\* mutant: the frame left in the order it came in
sort_index_skipped(df) == df

\* df.sort_index()
RECURSIVE sort_index(_)
sort_index(df) ==
    IF df = <<>> THEN <<>>
    ELSE insert_sorted(df[Len(df)], sort_index(SubSeq(df, 1, Len(df) - 1)))

\* process_stock_data(ticker, data)
process_stock_data(data) ==
    IF data = EmptyFrame THEN EmptyFrame
    ELSE sort_index(drop_duplicated_keep_last(fillna(data)))

\* save_processed_data(ticker, data): the processed files and whether the
\* file was written; a failed write is logged and swallowed
save_processed_data(processed, ticker, data, write_ok) ==
    IF data = EmptyFrame THEN [processed |-> processed, wrote |-> FALSE]
    ELSE IF write_ok
    THEN [processed |-> dict_set(processed, file_ticker(ticker), data),
          wrote |-> TRUE]
    ELSE [processed |-> processed, wrote |-> FALSE]

\* mutant: lines 235-243 keeping the first of duplicate dates
combine_keep_first(existing_data, processed_data) ==
    sort_index(reversed(drop_duplicated_keep_last(
                            reversed(existing_data \o processed_data))))

\* lines 235-243: existing then incoming, last duplicate kept, sorted
combine(existing_data, processed_data) ==
    sort_index(drop_duplicated_keep_last(existing_data \o processed_data))

\* lines 232-257 for a non-empty processed_data
merge_into(processed, ticker, mode, processed_data, env) ==
    IF file_ticker(ticker) \in DOMAIN processed /\ mode = "incr"
    THEN IF env.existing_read_ok
         THEN save_processed_data(processed, ticker,
                  combine(processed[file_ticker(ticker)], processed_data),
                  env.write_ok)
         ELSE save_processed_data(processed, ticker, processed_data,
                                  env.write_ok)
    ELSE save_processed_data(processed, ticker, processed_data, env.write_ok)

\* merge_stock_data(ticker, mode)
merge_stock_data(raw, processed, ticker, mode, env) ==
    IF process_stock_data(load_raw_stock_data(raw, ticker, mode,
                                              env.raw_read_ok)) = EmptyFrame
    THEN [processed |-> processed, wrote |-> FALSE]
    ELSE merge_into(processed, ticker, mode,
             process_stock_data(load_raw_stock_data(raw, ticker, mode,
                                                    env.raw_read_ok)),
             env)

----------------------------------------------------------------------------
(* merge_stock_data on its own: one call over a raw file and a processed
   file as they may be found *)

MaxRows == 2

\* the dates of the rows
MergeDates == {WindowStart, WindowStart + 1}

\* rows as the price source delivers them: a close, or a missing value
RawRows ==
    {[Date |-> d, Close |-> c, Volume |-> <<100, 1>>] :
        d \in MergeDates, c \in {<<1000, 1>>, <<2000, 1>>, NaN}}

\* a raw file holds at least one row (save_stock_data writes no empty frame)
RawFrames == SeqsUpTo(RawRows, MaxRows) \ {<<>>}

\* the dates of a frame ascend strictly
SortedUnique(df) == \A i \in 1..(Len(df) - 1) : df[i].Date < df[i + 1].Date

\* a processed file holds a non-empty frame without missing values, sorted
\* and unique by date, as save_processed_data left it
ExistingFrames ==
    {df \in RawFrames : SortedUnique(df) /\ \A i \in 1..Len(df) : df[i].Close # NaN}

\* what can fail during a merge: reading the raw file, reading the existing
\* processed file (or combining it), writing the processed file
MergeEnvs ==
    [raw_read_ok : BOOLEAN, existing_read_ok : BOOLEAN, write_ok : BOOLEAN]

MergeTickers == {C7203, C7203 \o SuffixT}

MergeInit ==
    /\ now = WindowStart + 1
    /\ registry_file = NoFile
    /\ meta_file = NoFile
    /\ raw_files \in
           {EmptyDict} \cup
           {[k \in {<<"full", C7203>>, <<"incr", C7203>>} |-> df] : df \in RawFrames}
    /\ processed_files \in
           {EmptyDict} \cup {dict_set(EmptyDict, C7203, df) : df \in ExistingFrames}
    /\ feeds = NoFeeds
    /\ metadata = <<>>
    /\ pc = "merge"
    /\ results = <<>>
    /\ call = Idle
    /\ ncalls = 0

\* one call of merge_stock_data(ticker, mode)
Merge ==
    /\ pc = "merge"
    /\ pc' = "merged"
    /\ \E ticker \in MergeTickers, mode \in {"full", "incr"}, env \in MergeEnvs :
       \E r \in {merge_stock_data(raw_files, processed_files, ticker, mode, env)} :
           /\ processed_files' = r.processed
           /\ call' = [op |-> "merge", ticker |-> ticker, mode |-> mode,
                       env |-> env, wrote |-> r.wrote,
                       incoming |-> process_stock_data(
                           load_raw_stock_data(raw_files, ticker, mode,
                                               env.raw_read_ok)),
                       before |-> processed_files]
    /\ UNCHANGED <<now, registry_file, meta_file, raw_files, feeds, metadata,
                   results, ncalls>>

MergeNext == Merge

SpecMerge == MergeInit /\ [][MergeNext]_vars

\* the last operation was an incremental merge
MergedIncr(c) == c.op = "merge" /\ c.mode = "incr"

\* ... onto an existing series, with a non-empty incoming frame and nothing
\* failing
MergedIncrOk(c) ==
    /\ MergedIncr(c)
    /\ file_ticker(c.ticker) \in DOMAIN c.before
    /\ c.incoming # EmptyFrame
    /\ c.env.raw_read_ok /\ c.env.existing_read_ok /\ c.env.write_ok

FrameDates(df) == {df[i].Date : i \in 1..Len(df)}

FrameRows(df) == {df[i] : i \in 1..Len(df)}

\* C12: an incremental merge of the existing series E with the incoming
\* frame I persists E then I without duplicate dates, the incoming row kept
\* for a date present in both, sorted ascending by date
C12_MergeIncomingWins ==
    MergedIncrOk(call) =>
        /\ file_ticker(call.ticker) \in DOMAIN processed_files
        /\ SortedUnique(processed_files[file_ticker(call.ticker)])
        /\ FrameDates(processed_files[file_ticker(call.ticker)]) =
               FrameDates(call.before[file_ticker(call.ticker)])
                   \cup FrameDates(call.incoming)
        /\ \A row \in FrameRows(processed_files[file_ticker(call.ticker)]) :
               IF row.Date \in FrameDates(call.incoming)
               THEN row \in FrameRows(call.incoming)
               ELSE row \in FrameRows(call.before[file_ticker(call.ticker)])

\* a merge in which a date is in both frames with different closes, and the
\* incoming frame also brings a date earlier than one of the existing rows
C12_Witness ==
    /\ MergedIncrOk(call)
    /\ \E e \in FrameRows(call.before[file_ticker(call.ticker)]),
          i \in FrameRows(call.incoming) : e.Date = i.Date /\ e.Close # i.Close
    /\ \E e \in FrameRows(call.before[file_ticker(call.ticker)]),
          i \in FrameRows(call.incoming) :
              i.Date < e.Date /\ i.Date \notin FrameDates(call.before[file_ticker(call.ticker)])

\* C13: whatever happens in an incremental merge, the persisted series has
\* at least as many rows as the existing one had, and unique ascending dates
C13_MergeNeverShrinks ==
    MergedIncr(call) /\ file_ticker(call.ticker) \in DOMAIN call.before =>
        /\ file_ticker(call.ticker) \in DOMAIN processed_files
        /\ Len(processed_files[file_ticker(call.ticker)]) >=
               Len(call.before[file_ticker(call.ticker)])
        /\ SortedUnique(processed_files[file_ticker(call.ticker)])

----------------------------------------------------------------------------
(* stock_flow.py: stock_backtest_flow as far as the stores go: the fetch
   task, then the processing task with the mode the flow derives from
   full_load.  The features and the backtest write none of the stores.
   Between two runs the persisted series of 7203 may be adjusted for a
   split; results then holds the series as adjusted, until a run fetches
   rows. *)

\* fetch_stock_data(ticker, full_load) of stock_flow.py (lines 101-116): a
\* new StockDataFetcher, one call, True unless something was raised
backtest_fetch(meta, raw, ticker, full_load, today, env) ==
    fetch_and_save_stock_data(StockDataFetcher(meta, raw, env.meta_read_ok),
                              ticker, full_load, today, env)

\* line 266: "full" if full_load else "incr"
process_mode(full_load) == IF full_load THEN "full" ELSE "incr"

\* the tickers a caller passes to the flow
BacktestTickers == {PyStr(C7203), PyStr(C7203 \o SuffixT)}

BacktestFetchEnvs(today) ==
    [avail : {today - 1, today}, download_ok : BOOLEAN,
     meta_write_ok : BOOLEAN, raw_write_ok : BOOLEAN, meta_read_ok : BOOLEAN]

\* the stores before any run, or as a run of the flow with full_load=True for
\* 7203.T left them on the first day of the window
BacktestInit ==
    /\ now = WindowStart
    /\ registry_file = NoFile
    /\ \/ /\ meta_file = NoFile
          /\ raw_files = EmptyDict
          /\ processed_files = EmptyDict
       \/ /\ meta_file =
                 File([tickers |-> dict_set(EmptyDict, C7203 \o SuffixT,
                                            strftime(WindowStart)),
                       last_updated |-> strftime(WindowStart)])
          /\ raw_files = dict_set(EmptyDict, <<"full", C7203>>,
                                  bars(WindowStart, WindowStart))
          /\ processed_files = dict_set(EmptyDict, C7203,
                                        bars(WindowStart, WindowStart))
    /\ feeds = NoFeeds
    /\ metadata = <<>>
    /\ pc = "idle"
    /\ results = <<>>
    /\ call = Idle
    /\ ncalls = 0

\* line 260: fetch_success = fetch_stock_data(ticker, full_load)
BacktestFetch ==
    /\ pc = "idle"
    /\ ncalls < MaxCalls
    /\ ncalls' = ncalls + 1
    /\ \E ticker \in BacktestTickers, full_load \in BOOLEAN,
          env \in BacktestFetchEnvs(now) :
       \E r \in {backtest_fetch(meta_file, raw_files, ticker, full_load, now,
                                env)} :
           /\ meta_file' = r.F.meta_file
           /\ raw_files' = r.F.raw_files
           /\ pc' = IF r.raised THEN "idle" ELSE "process"
           /\ call' = [op |-> "backtest_fetch", ticker |-> ticker,
                       full_load |-> full_load, fetched |-> r.df,
                       latest |-> get_latest_date(
                           load_metadata(meta_file, env.meta_read_ok), ticker),
                       fetch_ok |-> /\ env.download_ok /\ env.meta_write_ok
                                    /\ env.raw_write_ok /\ env.meta_read_ok]
           /\ results' = IF r.df = EmptyFrame THEN results ELSE <<>>
    /\ UNCHANGED <<now, registry_file, processed_files, feeds, metadata>>

\* line 266: process_stock_data(ticker, "full" if full_load else "incr")
BacktestProcess ==
    /\ pc = "process"
    /\ pc' = "idle"
    /\ \E env \in MergeEnvs :
       \E r \in {merge_stock_data(raw_files, processed_files, call.ticker.v,
                     process_mode(call.full_load), env)} :
           /\ processed_files' = r.processed
           /\ call' = [op |-> "backtest", ticker |-> call.ticker,
                       full_load |-> call.full_load, fetched |-> call.fetched,
                       latest |-> call.latest,
                       ok |-> /\ call.fetch_ok
                              /\ env.raw_read_ok /\ env.existing_read_ok
                              /\ env.write_ok,
                       wrote |-> r.wrote, before |-> processed_files]
    /\ UNCHANGED <<now, registry_file, meta_file, raw_files, feeds, metadata,
                   results, ncalls>>

\* midnight passes between two runs
BacktestTick ==
    /\ pc = "idle"
    /\ now < WindowStart + WindowDays
    /\ now' = now + 1
    /\ call' = [op |-> "tick"]
    /\ UNCHANGED <<registry_file, meta_file, raw_files, processed_files,
                   feeds, metadata, pc, results, ncalls>>

\* apply_split_adjustment("7203", 2.0) between two runs of the flow
BacktestAdjust ==
    /\ pc = "idle"
    /\ results = <<>>
    /\ C7203 \in DOMAIN processed_files
    /\ \E env \in [series_read_ok : BOOLEAN, series_write_ok : BOOLEAN] :
       \E r \in {apply_split_adjustment(processed_files, C7203, <<2, 1>>, now,
                                        env)} :
           /\ processed_files' = r.processed
           /\ results' = IF r.ok /\ env.series_write_ok
                         THEN <<r.processed[C7203]>> ELSE <<>>
           /\ call' = [op |-> "backtest_adjust", ok |-> r.ok, env |-> env]
    /\ UNCHANGED <<now, registry_file, meta_file, raw_files, feeds, metadata,
                   pc, ncalls>>

BacktestNext ==
    BacktestFetch \/ BacktestProcess \/ BacktestTick \/ BacktestAdjust

SpecBacktest == BacktestInit /\ [][BacktestNext]_vars

\* a run of the flow with full_load=False has gone through both tasks
BacktestIncr(c) == c.op = "backtest" /\ ~c.full_load

\* C14: when nothing new was fetched for the instrument in the run (and
\* nothing failed), the incremental merge leaves the persisted series as it
\* is and does not write it again
C14_EmptyIncomingNoOp ==
    BacktestIncr(call) /\ call.ok /\ call.fetched = EmptyFrame =>
        /\ ~call.wrote
        /\ processed_files = call.before

\* C15: after a run with full_load=False that fetched rows later than the
\* instrument's persisted series, with nothing failing, the persisted series
\* holds every earlier date and every fetched row, and the instrument's
\* cursor is the last fetched date
C15_FetchThenMergeExtends ==
    (/\ BacktestIncr(call)
     /\ call.ok
     /\ file_ticker(call.ticker.v) \in DOMAIN call.before
     /\ call.fetched # EmptyFrame
     /\ \E new \in FrameDates(call.fetched) :
            \A old \in FrameDates(call.before[file_ticker(call.ticker.v)]) :
                old < new) =>
        /\ FrameDates(call.before[file_ticker(call.ticker.v)])
               \subseteq FrameDates(processed_files[file_ticker(call.ticker.v)])
        /\ FrameRows(call.fetched)
               \subseteq FrameRows(processed_files[file_ticker(call.ticker.v)])
        /\ meta_file.exists
        /\ get_latest_date(meta_file.data, call.ticker) =
               strftime(call.fetched[Len(call.fetched)].Date)

-----------------------------------------------------------------------------
(* One call of SplitAdjustment on a store of persisted series: either
   apply_split_adjustment directly, or update_split_adjustments on what the
   corporate-action site shows that day. *)

\* a series as the pipeline left it, and the same series after a 2:1 split
\* was applied on the second day of the window
SeriesInits ==
    {bars(WindowStart, WindowStart + WindowDays),
     adjust_rows(bars(WindowStart, WindowStart + WindowDays),
                 WindowStart + 1, <<2, 1>>)}

\* data/processed/prices: each of the two instruments with or without a file
AdjustStores ==
    UNION {[T -> SeriesInits] : T \in SUBSET {C7203, C6501}}

\* ratios apply_split_adjustment is called with
ApplyRatios == {<<2, 1>>, <<1, 2>>, <<3, 2>>}

\* the texts of the ratio column
R2to1 == <<"2", ":", "1">>
R1to2 == <<"fw1", "fw:", "fw2">>
Rabc == <<"a", "b", "c">>
R1to0 == <<"1", ":", "0">>

\* the rows a corporate-action page can show
ActionRows(today) ==
    {[day |-> today, code |-> C7203, ratio |-> R2to1],
     [day |-> today, code |-> C7203, ratio |-> Rabc],
     [day |-> today, code |-> C6501, ratio |-> R1to0],
     [day |-> today, code |-> C6501, ratio |-> R1to2],
     [day |-> today - 1, code |-> C7203, ratio |-> R2to1]}

ActionTables(today) == SeqsUpTo(ActionRows(today), MaxFeed)

MergerTables(today) ==
    {<<>>, <<[day |-> today, code |-> C6501, ratio |-> R2to1]>>}

AdjustInit ==
    /\ now \in Days
    /\ processed_files \in AdjustStores
    /\ registry_file = NoFile
    /\ meta_file = NoFile
    /\ raw_files = EmptyDict
    /\ feeds = NoFeeds
    /\ metadata = EmptyDict
    /\ pc = "adjust"
    /\ results = <<>>
    /\ call = [op |-> "none"]
    /\ ncalls = 0

\* apply_split_adjustment(ticker, ratio)
ApplySplit ==
    /\ pc = "adjust"
    /\ pc' = "adjusted"
    /\ \E ticker \in {C7203, C6501}, ratio \in ApplyRatios,
          env \in [series_read_ok : BOOLEAN, series_write_ok : BOOLEAN] :
       \E r \in {apply_split_adjustment(processed_files, ticker, ratio, now,
                                        env)} :
           /\ processed_files' = r.processed
           /\ call' = [op |-> "apply", ticker |-> ticker, ratio |-> ratio,
                       env |-> env, ok |-> r.ok, before |-> processed_files]
    /\ UNCHANGED <<now, registry_file, meta_file, raw_files, feeds, metadata,
                   results, ncalls>>

\* update_split_adjustments()
UpdateSplits ==
    /\ pc = "adjust"
    /\ pc' = "adjusted"
    /\ \E split \in ActionTables(now), merger \in MergerTables(now),
          env \in AdjustEnvs :
       \E r \in {update_split_adjustments(processed_files, now,
                     [split |-> split, merger |-> merger], env)} :
           /\ processed_files' = r.processed
           /\ call' = [op |-> "update", split |-> split, merger |-> merger,
                       env |-> env, raised |-> r.raised,
                       applied |-> r.applied, before |-> processed_files]
    /\ UNCHANGED <<now, registry_file, meta_file, raw_files, feeds, metadata,
                   results, ncalls>>

AdjustNext == ApplySplit \/ UpdateSplits

SpecAdjust == AdjustInit /\ [][AdjustNext]_vars

\* apply_split_adjustment has returned for an instrument that had a series
Applied(c) == c.op = "apply" /\ c.ticker \in DOMAIN c.before

\* C16: apply_split_adjustment adds and removes no row, and every row dated
\* on or after the run date is after the call what it was before
C16_OnlyEarlierRowsChange ==
    Applied(call) =>
        /\ DOMAIN processed_files = DOMAIN call.before
        /\ Len(processed_files[call.ticker]) = Len(call.before[call.ticker])
        /\ \A i \in 1..Len(call.before[call.ticker]) :
               /\ processed_files[call.ticker][i].Date =
                      call.before[call.ticker][i].Date
               /\ call.before[call.ticker][i].Date >= now =>
                      processed_files[call.ticker][i] =
                          call.before[call.ticker][i]

\* a series with a row of the run date was adjusted: an earlier row changed
C16_Witness ==
    /\ Applied(call)
    /\ call.ok
    /\ \E i, j \in 1..Len(call.before[call.ticker]) :
           /\ call.before[call.ticker][i].Date < now
           /\ processed_files[call.ticker][i] # call.before[call.ticker][i]
           /\ call.before[call.ticker][j].Date = now

\* the number new is the number old times the ratio r
Scaled(new, old, r) ==
    new[2] # 0 /\ new[1] * old[2] * r[2] = old[1] * r[1] * new[2]

\* apply_split_adjustment has returned, the instrument's file was there and
\* could be read and written
AppliedAndSaved(c) ==
    Applied(c) /\ c.env.series_read_ok /\ c.env.series_write_ok

\* C17: after apply_split_adjustment(code, ratio) the persisted series has,
\* for every row dated before the run date, the prices times the ratio and
\* the volume divided by the ratio; ratio 2.0 turns a close of 1000 into
\* 2000 and a volume of 100 into 50
C17_EarlierRowsScaled ==
    AppliedAndSaved(call) =>
        /\ call.ok
        /\ \A i \in 1..Len(call.before[call.ticker]) :
               call.before[call.ticker][i].Date < now =>
                   /\ Scaled(processed_files[call.ticker][i].Close,
                             call.before[call.ticker][i].Close, call.ratio)
                   /\ Scaled(call.before[call.ticker][i].Volume,
                             processed_files[call.ticker][i].Volume,
                             call.ratio)
                   /\ (/\ call.ratio = <<2, 1>>
                       /\ call.before[call.ticker][i].Close = <<1000, 1>>
                       /\ call.before[call.ticker][i].Volume = <<100, 1>>) =>
                          /\ processed_files[call.ticker][i].Close = <<2000, 1>>
                          /\ processed_files[call.ticker][i].Volume = <<50, 1>>

\* a 2:1 action was applied to a series with a close of 1000 before the run
\* date, and the file now holds 2000 there
C17_Witness ==
    /\ AppliedAndSaved(call)
    /\ call.ratio = <<2, 1>>
    /\ \E i \in 1..Len(call.before[call.ticker]) :
           /\ call.before[call.ticker][i].Date < now
           /\ call.before[call.ticker][i].Close = <<1000, 1>>
           /\ processed_files[call.ticker][i].Close = <<2000, 1>>
           /\ processed_files[call.ticker][i].Volume = <<50, 1>>

\* C18: for an instrument without a persisted series apply_split_adjustment
\* returns False, creates no file and leaves every other series as it was
C18_NoSeriesNoEffect ==
    (call.op = "apply" /\ call.ticker \notin DOMAIN call.before) =>
        /\ ~call.ok
        /\ processed_files = call.before

\* the call was made for an instrument without a file while another
\* instrument had one
C18_Witness ==
    /\ call.op = "apply"
    /\ call.ticker \notin DOMAIN call.before
    /\ call.before # EmptyDict
    /\ ~call.ok

\* of the four ratio texts of the pages, the two that are ratios
ValidRatioTexts == {R2to1, R1to2}

RatioOfText(t) == IF t = R2to1 THEN <<2, 1>> ELSE <<1, 2>>

\* update_split_adjustments has gone through the records of the two pages
Updated(c) == c.op = "update" /\ ~c.raised

\* the records of the run date, split page first
TodayRecords(c) == SelectSeq(c.split \o c.merger, LAMBDA r : r.day = now)

ValidRecords(c) ==
    SelectSeq(TodayRecords(c), LAMBDA r : r.ratio \in ValidRatioTexts)

InvalidRecords(c) ==
    SelectSeq(TodayRecords(c), LAMBDA r : r.ratio \notin ValidRatioTexts)

\* C19: update_split_adjustments calls apply_split_adjustment for exactly
\* the records of the run date whose ratio text is a ratio, in their order;
\* a record with an invalid ratio text leads to no call (with ratio 1.0 or
\* any other), the series of an instrument that has only such records is
\* unchanged, and a valid record of the same feed is applied with its ratio
C19_InvalidRatioSkipped ==
    Updated(call) =>
        /\ Len(call.applied) = Len(ValidRecords(call))
        /\ \A i \in 1..Len(call.applied) :
               call.applied[i].code = ValidRecords(call)[i].code
        /\ DOMAIN processed_files = DOMAIN call.before
        /\ \A t \in DOMAIN call.before :
               (\A i \in 1..Len(ValidRecords(call)) :
                    ValidRecords(call)[i].code # t) =>
                   processed_files[t] = call.before[t]
        /\ \A t \in DOMAIN call.before :
               (/\ call.env.series_read_ok
                /\ call.env.series_write_ok
                /\ Len(SelectSeq(ValidRecords(call),
                                 LAMBDA r : r.code = t)) = 1) =>
                   \A i \in 1..Len(call.before[t]) :
                       call.before[t][i].Date < now =>
                           Scaled(processed_files[t][i].Close,
                                  call.before[t][i].Close,
                                  RatioOfText(SelectSeq(ValidRecords(call),
                                      LAMBDA r : r.code = t)[1].ratio))

\* one page showed a record with an invalid ratio text and a valid record
\* of another instrument: the first instrument's series is as before, the
\* second one's is adjusted
C19_Witness ==
    /\ Updated(call)
    /\ \E i, j \in 1..Len(call.split) :
           /\ call.split[i].day = now /\ call.split[j].day = now
           /\ call.split[i].ratio \notin ValidRatioTexts
           /\ call.split[j].ratio \in ValidRatioTexts
           /\ call.split[i].code # call.split[j].code
           /\ call.split[i].code \in DOMAIN call.before
           /\ call.split[j].code \in DOMAIN call.before
           /\ processed_files[call.split[i].code] =
                  call.before[call.split[i].code]
           /\ processed_files[call.split[j].code] #
                  call.before[call.split[j].code]
    /\ Len(call.applied) = 1
    /\ call.applied[1].ok

-----------------------------------------------------------------------------
(* ratio_to_float on its own: one argument, one call. *)

\* longest text tried character by character
MaxText == 3

PyFloat(s) == [t |-> "float", v |-> s]

\* the characters of the texts: digits, full-width digits, the two colons,
\* the two spaces, the decimal point and a letter
RatioChars ==
    {"0", "1", "2", "fw1", "fw2", ":", "fw:", " ", "fw_", ".", "a"}

\* the two sides of longer texts
RatioSides ==
    {<<"1">>, <<"2">>, <<"0">>, <<"1", "0">>, <<"1", ".", "5">>,
     <<"0", ".", "5">>, <<"0", ".", "0">>, <<"fw1", "fw2">>, <<"1", ".">>,
     <<".", "5">>, <<"a">>, <<>>}

\* what stands between the two sides
RatioSeparators ==
    {<<":">>, <<"fw:">>, <<" ", ":", " ">>, <<"fw_", "fw:", "fw_">>,
     <<":", ":">>, <<"/">>, <<>>}

RatioTexts ==
    SeqsUpTo(RatioChars, MaxText)
        \cup {l \o m \o r : l \in RatioSides, m \in RatioSeparators,
                            r \in RatioSides}
        \cup {R2to1, R1to2, Rabc, R1to0}

\* the values the ratio column can hold: a str, or what is not a str
RatioInputs ==
    {PyStr(x) : x \in RatioTexts}
        \cup {PyInt(<<"2">>), PyFloat(<<"2", ".", "0">>), PyFloat(<<"n", "a", "n">>)}

RatioInit ==
    /\ now = WindowStart
    /\ registry_file = NoFile
    /\ meta_file = NoFile
    /\ raw_files = EmptyDict
    /\ processed_files = EmptyDict
    /\ feeds = NoFeeds
    /\ metadata = EmptyDict
    /\ pc = "ratio"
    /\ results = <<>>
    /\ call \in {[op |-> "argument", arg |-> x] : x \in RatioInputs}
    /\ ncalls = 0

\* ratio_to_float(ratio)
RatioToFloat ==
    /\ pc = "ratio"
    /\ pc' = "converted"
    /\ call' = [op |-> "ratio_to_float", arg |-> call.arg,
                value |-> ratio_to_float(call.arg)]
    /\ UNCHANGED <<now, registry_file, meta_file, raw_files, processed_files,
                   feeds, metadata, results, ncalls>>

RatioNext == RatioToFloat

SpecRatio == RatioInit /\ [][RatioNext]_vars

\* the text without ASCII and full-width spaces, the full-width colon made
\* an ASCII one
Stripped(s) ==
    LET t == SelectSeq(s, LAMBDA c : c \notin {" ", "fw_"})
    IN  [i \in 1..Len(t) |-> IF t[i] = "fw:" THEN ":" ELSE t[i]]

\* <number>: digits, or digits, a point and digits
Numeral(u) ==
    /\ u # <<>>
    /\ \A i \in 1..Len(u) : u[i] \in Digits \cup FullWidthDigits \cup {"."}
    /\ Cardinality({i \in 1..Len(u) : u[i] = "."}) <= 1
    /\ u[1] # "."
    /\ u[Len(u)] # "."

\* s is N:M at position k of the colon
RatioForm(s, k) ==
    /\ s[k] = ":"
    /\ Numeral(SubSeq(s, 1, k - 1))
    /\ Numeral(SubSeq(s, k + 1, Len(s)))

\* C20: ratio_to_float gives N/M for a text that is N:M once spaces are
\* removed and the full-width colon is converted, M not zero ("2:1" gives
\* 2, full-width "1:2" gives 1/2), and NaN for every other text ("abc"), for
\* a zero M ("1:0") and for a value that is not a str
C20_RatioToFloat ==
    call.op = "ratio_to_float" =>
        /\ call.arg = PyStr(R2to1) => call.value = <<2, 1>>
        /\ call.arg = PyStr(R1to2) => call.value = <<1, 2>>
        /\ call.arg \in {PyStr(Rabc), PyStr(R1to0)} => call.value = NaN
        /\ call.arg.t # "str" => call.value = NaN
        /\ call.arg.t = "str" =>
               LET s == Stripped(call.arg.v)
               IN  /\ \A k \in 1..Len(s) :
                          (/\ RatioForm(s, k)
                           /\ number_value(SubSeq(s, k + 1, Len(s)))[1] # 0) =>
                              /\ call.value # NaN
                              /\ call.value[2] > 0
                              /\ call.value[1]
                                   * number_value(SubSeq(s, 1, k - 1))[2]
                                   * number_value(SubSeq(s, k + 1, Len(s)))[1]
                                 = number_value(SubSeq(s, 1, k - 1))[1]
                                   * number_value(SubSeq(s, k + 1, Len(s)))[2]
                                   * call.value[2]
                   /\ (\A k \in 1..Len(s) :
                          \/ ~RatioForm(s, k)
                          \/ number_value(SubSeq(s, k + 1, Len(s)))[1] = 0) =>
                              call.value = NaN

\* a text with spaces, a full-width colon and a decimal number was converted
C20_Witness ==
    /\ call.op = "ratio_to_float"
    /\ call.arg = PyStr(<<"1", ".", "5">> \o <<"fw_", "fw:", "fw_">> \o <<"0", ".", "5">>)
    /\ call.value = <<3, 1>>

\* C21: a series that cannot be written is reported: apply_split_adjustment
\* does not return True when the adjusted series could not be saved, and the
\* adjust stage does not return True when a record of the run date was
\* applied to a series that could not be saved
C21_WriteFailureSurfaced ==
    /\ (/\ Applied(call)
        /\ call.env.series_read_ok
        /\ ~call.env.series_write_ok
        /\ \E i \in 1..Len(call.before[call.ticker]) :
               call.before[call.ticker][i].Date < now) => ~call.ok
    /\ (/\ call.op = "update"
        /\ call.env.series_read_ok
        /\ ~call.env.series_write_ok
        /\ \E i \in 1..Len(call.applied) :
               call.applied[i].code \in DOMAIN call.before) =>
           ~adjust_stock_splits([raised |-> call.raised]).value

-----------------------------------------------------------------------------
(* daily_update_flow from its second stage on, the listing stage having
   returned True: the fetch task, then the adjust task when the fetch task
   returned True (lines 126-137). *)

\* the outside world treats the two instruments of a run alike
DailyRunEnvs(today) ==
    {e \in DailyFetchEnvs(today) : e.per_ticker[1] = e.per_ticker[2]}

\* data/processed/prices before the run: nothing, or the series of 7203 as a
\* merge on the first day of the window left it
DailyStores ==
    {EmptyDict, dict_set(EmptyDict, C7203, bars(WindowStart, WindowStart))}

DailyInit ==
    /\ now \in (WindowStart + 1) .. (WindowStart + WindowDays)
    /\ registry_file \in RegistryInits
    /\ meta_file \in StageCursors
    /\ raw_files = EmptyDict
    /\ processed_files \in DailyStores
    /\ feeds = NoFeeds
    /\ metadata = <<>>
    /\ pc = "fetch"
    /\ results = <<>>
    /\ call = Idle
    /\ ncalls = 0

\* lines 126-127: fetch_result = fetch_stock_data()
DailyRunFetch ==
    /\ pc = "fetch"
    /\ pc' = "adjust"
    /\ \E env \in DailyRunEnvs(now) :
       \E t \in {daily_fetch_stock_data(registry_file, meta_file, raw_files,
                                        now, env)} :
           /\ meta_file' = t.F.meta_file
           /\ raw_files' = t.F.raw_files
           /\ metadata' = <<t.F.metadata>>
           /\ call' = [op |-> "daily_fetch", value |-> t.value, log |-> t.log]
    /\ UNCHANGED <<now, registry_file, processed_files, feeds, results, ncalls>>

\* lines 133-134: adjust_result = adjust_stock_splits()
DailyRunAdjust ==
    /\ pc = "adjust"
    /\ run_adjust_stage(TRUE, call.value)
    /\ pc' = "done"
    /\ \E split \in SplitTables(now), env \in AdjustEnvs :
       \E r \in {update_split_adjustments(processed_files, now,
                     [split |-> split, merger |-> <<>>], env)} :
           /\ processed_files' = r.processed
           /\ call' = [op |-> "daily_adjust", log |-> call.log,
                       value |-> adjust_stock_splits(r).value,
                       applied |-> r.applied, before |-> processed_files]
    /\ UNCHANGED <<now, registry_file, meta_file, raw_files, feeds, metadata,
                   results, ncalls>>

DailyNext == DailyRunFetch \/ DailyRunAdjust

SpecDaily == DailyInit /\ [][DailyNext]_vars

StoredDates(name) ==
    UNION {FrameDates(raw_files[k]) :
               k \in {k \in DOMAIN raw_files : k[2] = name}}
        \cup (IF name \in DOMAIN processed_files
              THEN FrameDates(processed_files[name]) ELSE {})

\* C23: the cursor written to the cursor file for an instrument is never
\* later than the last date of the rows stored for that instrument
C23_CursorNotAheadOfData ==
    meta_file.exists =>
        \A k \in DOMAIN meta_file.data.tickers :
            \E d \in StoredDates(file_ticker(k)) :
                str_ge(strftime(d), meta_file.data.tickers[k])

-----------------------------------------------------------------------------
(* One instrument's files under a sequence of operations: the fetcher
   writes a raw file, merge_stock_data merges it in either mode, and
   apply_split_adjustment rescales the persisted series. *)

\* frames of the price source's rows in any order, dates repeated or not
PlainFrames == SeqsUpTo({bar(d) : d \in MergeDates}, MaxRows) \ {<<>>}

SeriesInit ==
    /\ now \in MergeDates
    /\ registry_file = NoFile
    /\ meta_file = NoFile
    /\ raw_files = EmptyDict
    /\ processed_files = EmptyDict
    /\ feeds = NoFeeds
    /\ metadata = <<>>
    /\ pc = "series"
    /\ results = <<>>
    /\ call = Idle
    /\ ncalls = 0

\* save_stock_data has written the raw file of a mode
SeriesStoreRaw ==
    /\ ncalls < MaxCalls
    /\ \E mode \in {"full", "incr"}, df \in PlainFrames :
           /\ <<mode, C7203>> \notin DOMAIN raw_files
           /\ raw_files' = dict_set(raw_files, <<mode, C7203>>, df)
           /\ call' = [op |-> "store_raw", mode |-> mode]
    /\ UNCHANGED <<now, registry_file, meta_file, processed_files, feeds,
                   metadata, pc, results, ncalls>>

\* merge_stock_data(ticker, mode)
SeriesMerge ==
    /\ ncalls < MaxCalls
    /\ ncalls' = ncalls + 1
    /\ \E mode \in {"full", "incr"}, env \in MergeEnvs :
       \E r \in {merge_stock_data(raw_files, processed_files, C7203, mode, env)} :
           /\ processed_files' = r.processed
           /\ call' = [op |-> "series_merge", mode |-> mode, env |-> env,
                       wrote |-> r.wrote, before |-> processed_files]
    /\ UNCHANGED <<now, registry_file, meta_file, raw_files, feeds, metadata,
                   pc, results>>

\* apply_split_adjustment(ticker, ratio)
SeriesAdjust ==
    /\ ncalls < MaxCalls
    /\ ncalls' = ncalls + 1
    /\ \E env \in [series_read_ok : BOOLEAN, series_write_ok : BOOLEAN] :
       \E r \in {apply_split_adjustment(processed_files, C7203, <<2, 1>>, now,
                                        env)} :
           /\ processed_files' = r.processed
           /\ call' = [op |-> "series_adjust", env |-> env, ok |-> r.ok,
                       before |-> processed_files]
    /\ UNCHANGED <<now, registry_file, meta_file, raw_files, feeds, metadata,
                   pc, results>>

SeriesNext == SeriesStoreRaw \/ SeriesMerge \/ SeriesAdjust

SpecSeries == SeriesInit /\ [][SeriesNext]_vars

\* C24: the dates of every persisted series are unique and strictly
\* increasing
C24_SeriesDatesIncrease ==
    \A t \in DOMAIN processed_files :
        \A i, j \in 1..Len(processed_files[t]) :
            i < j => processed_files[t][i].Date < processed_files[t][j].Date

\* an incremental merge whose read of the existing series failed has
\* written a series of more than one row, from a raw file that was not in
\* order
C24_Witness ==
    /\ call.op = "series_merge"
    /\ call.mode = "incr"
    /\ ~call.env.existing_read_ok
    /\ call.wrote
    /\ C7203 \in DOMAIN call.before
    /\ Len(processed_files[C7203]) > 1
    /\ \E k \in DOMAIN raw_files :
           Len(raw_files[k]) > 1 /\ raw_files[k][1].Date >= raw_files[k][2].Date

\* the cursor entries a cursor file holds for the instrument of a file name
CursorsOf(file, name) ==
    IF ~file.exists THEN {}
    ELSE {<<k, file.data.tickers[k]>> :
             k \in {k \in DOMAIN file.data.tickers : file_ticker(k) = name}}

\* C25: after a run of the fetch task that could read the cursor file, an
\* instrument whose download or cursor write failed has the cursor entries
\* in the cursor file and the raw series it had before the run
C25_FailedFetchLeavesNoTrace ==
    (FetchStageRan(call) /\ call.env.meta_read_ok) =>
        \A i \in 1..Len(call.log) :
            FetchFailed(call, i) =>
                /\ CursorsOf(meta_file, file_ticker(call.codes[i].code.v))
                       = CursorsOf(call.meta_before,
                                   file_ticker(call.codes[i].code.v))
                /\ \A mode \in {"full", "incr"} :
                       SeriesAt(raw_files,
                                <<mode, file_ticker(call.codes[i].code.v)>>)
                       = SeriesAt(call.before,
                                  <<mode, file_ticker(call.codes[i].code.v)>>)

\* C26: a run of update_listing_data with every source and file available
\* applies the rows dated the run date and no others: a code newly listed
\* that day and not delisted that day is in the registry afterwards, a code
\* delisted that day is not, and every code that entered or left the
\* registry is the code of a row dated the run date
C26_SameDayRowsApplied ==
    ReconciledOk(call) =>
        /\ SameDayCodes(feeds.new, now) \ SameDayCodes(feeds.del, now)
               \subseteq Codes(registry_file)
        /\ SameDayCodes(feeds.del, now) \cap Codes(registry_file) = {}
        /\ (Codes(registry_file) \ Codes(call.before))
               \subseteq SameDayCodes(feeds.new, now)
        /\ (Codes(call.before) \ Codes(registry_file))
               \subseteq SameDayCodes(feeds.del, now)

-----------------------------------------------------------------------------
(* The same corporate action handled twice on one run date: two calls of
   apply_split_adjustment, or two runs of update_split_adjustments against
   the same pages. *)

\* apply_split_adjustment(ticker, ratio) once more, same arguments
ApplyAgain ==
    /\ pc = "adjusted"
    /\ call.op = "apply"
    /\ pc' = "repeated"
    /\ \E env \in [series_read_ok : BOOLEAN, series_write_ok : BOOLEAN] :
       \E r \in {apply_split_adjustment(processed_files, call.ticker,
                                        call.ratio, now, env)} :
           /\ processed_files' = r.processed
           /\ call' = [op |-> "apply_again", ticker |-> call.ticker,
                       ratio |-> call.ratio, env |-> env, ok |-> r.ok,
                       first |-> call]
    /\ UNCHANGED <<now, registry_file, meta_file, raw_files, feeds, metadata,
                   results, ncalls>>

\* update_split_adjustments() with the split page of the day
AdjustOnce ==
    /\ pc = "adjust"
    /\ pc' = "adjusted"
    /\ \E split \in SplitTables(now), env \in AdjustEnvs :
       \E r \in {update_split_adjustments(processed_files, now,
                     [split |-> split, merger |-> <<>>], env)} :
           /\ processed_files' = r.processed
           /\ call' = [op |-> "adjust_once", split |-> split, env |-> env,
                       raised |-> r.raised, applied |-> r.applied,
                       before |-> processed_files]
    /\ UNCHANGED <<now, registry_file, meta_file, raw_files, feeds, metadata,
                   results, ncalls>>

\* update_split_adjustments() once more, the page unchanged
AdjustTwice ==
    /\ pc = "adjusted"
    /\ call.op = "adjust_once"
    /\ pc' = "repeated"
    /\ \E env \in AdjustEnvs :
       \E r \in {update_split_adjustments(processed_files, now,
                     [split |-> call.split, merger |-> <<>>], env)} :
           /\ processed_files' = r.processed
           /\ call' = [op |-> "adjust_twice", split |-> call.split,
                       env |-> env, raised |-> r.raised,
                       applied |-> r.applied, first |-> call]
    /\ UNCHANGED <<now, registry_file, meta_file, raw_files, feeds, metadata,
                   results, ncalls>>

TwiceNext == ApplySplit \/ ApplyAgain \/ AdjustOnce \/ AdjustTwice

SpecTwice == AdjustInit /\ [][TwiceNext]_vars

\* every row of series new dated before the run date is the row of series
\* old with the prices times r times r and the volume divided by r times r,
\* and the later rows are those of old
DoubleAdjusted(new, old, r) ==
    /\ Len(new) = Len(old)
    /\ \A i \in 1..Len(old) :
           IF old[i].Date < now
           THEN /\ new[i].Date = old[i].Date
                /\ Scaled(new[i].Close, old[i].Close, mul(r, r))
                /\ Scaled(old[i].Volume, new[i].Volume, mul(r, r))
           ELSE new[i] = old[i]

\* both calls found the series and could read and write it
BothDone(c) ==
    /\ c.env.series_read_ok /\ c.env.series_write_ok
    /\ c.first.env.series_read_ok /\ c.first.env.series_write_ok

\* C27: after apply_split_adjustment has run twice on one run date with the
\* same ratio r, or the adjust stage has run twice against the same split
\* record, the rows before the run date hold the original prices times r*r
\* and the original volume divided by r*r
C27_AppliedTwiceIsSquared ==
    /\ (/\ call.op = "apply_again"
        /\ BothDone(call)
        /\ call.ticker \in DOMAIN call.first.before) =>
           DoubleAdjusted(processed_files[call.ticker],
                          call.first.before[call.ticker], call.ratio)
    /\ (/\ call.op = "adjust_twice"
        /\ BothDone(call)
        /\ call.env.split_ok /\ call.env.merger_ok
        /\ call.first.env.split_ok /\ call.first.env.merger_ok) =>
           \A i \in 1..Len(call.split) :
               (call.split[i].day = now
                    /\ call.split[i].code \in DOMAIN call.first.before) =>
                   DoubleAdjusted(processed_files[call.split[i].code],
                                  call.first.before[call.split[i].code],
                                  <<2, 1>>)

\* the adjust stage ran twice against a 2:1 split of a stored instrument: a
\* close of 1000 before the run date is now 4000
C27_Witness ==
    /\ call.op = "adjust_twice"
    /\ BothDone(call)
    /\ Len(call.applied) = 1 /\ Len(call.first.applied) = 1
    /\ C7203 \in DOMAIN call.first.before
    /\ \E i \in 1..Len(call.first.before[C7203]) :
           /\ call.first.before[C7203][i].Date < now
           /\ call.first.before[C7203][i].Close = <<1000, 1>>
           /\ processed_files[C7203][i].Close = <<4000, 1>>
           /\ processed_files[C7203][i].Volume = <<25, 1>>

\* C28: when both pages were retrieved and the registry file can be read
\* and written, update_listing_data returns without raising and has saved
\* the registry, update_listing_info returns True and the flow goes on to
\* the fetch stage
C28_ReconcileCompletes ==
    ReconciledOk(call) =>
        /\ ~call.raised
        /\ call.saved
        /\ update_listing_info([raised |-> call.raised]).value
        /\ run_fetch_stage(update_listing_info([raised |-> call.raised]).value)

-----------------------------------------------------------------------------
(* Two runs of the task fetch_stock_data of stock_flow.py at the same time,
   for different instruments.  Each builds its own StockDataFetcher (lines
   101-105) and then calls fetch_and_save_stock_data (line 108); the steps
   of the two runs interleave in any order.  metadata[p] is the dictionary
   of run p's instance, results.built[p] whether it could read the cursor
   file, results.fetched[p] the outcome of its call. *)

RaceTickers == <<PyStr(C130A), PyStr(C7203 \o SuffixT)>>

RaceInit ==
    /\ now \in (WindowStart + 1) .. (WindowStart + WindowDays)
    /\ registry_file = NoFile
    /\ meta_file \in StageCursors
    /\ raw_files = EmptyDict
    /\ processed_files = EmptyDict
    /\ feeds = NoFeeds
    /\ metadata = <<<<>>, <<>>>>
    /\ pc = <<"start", "start">>
    /\ results = [built |-> EmptyDict, fetched |-> EmptyDict]
    /\ call = Idle
    /\ ncalls = 0

\* lines 101-105: data_fetcher = StockDataFetcher(...)
RaceConstruct ==
    /\ \E p \in 1..2, read_ok \in BOOLEAN :
           /\ pc[p] = "start"
           /\ pc' = [pc EXCEPT ![p] = "built"]
           /\ metadata' = [metadata EXCEPT
                              ![p] = <<load_metadata(meta_file, read_ok)>>]
           /\ results' = [results EXCEPT !.built = dict_set(@, p, read_ok)]
           /\ call' = [op |-> "construct", p |-> p]
    /\ UNCHANGED <<now, registry_file, meta_file, raw_files, processed_files,
                   feeds, ncalls>>

\* line 108: data_fetcher.fetch_and_save_stock_data(ticker, full_load)
RaceFetch ==
    /\ \E p \in {q \in 1..2 : pc[q] = "built"}, full_load \in BOOLEAN,
          env \in FetchEnvs(now) :
       \E r \in {fetch_and_save_stock_data(
                     [metadata |-> metadata[p][1], meta_file |-> meta_file,
                      raw_files |-> raw_files, requests |-> <<>>],
                     RaceTickers[p], full_load, now, env)} :
           /\ pc' = [pc EXCEPT ![p] = "fetched"]
           /\ metadata' = [metadata EXCEPT ![p] = <<r.F.metadata>>]
           /\ meta_file' = r.F.meta_file
           /\ raw_files' = r.F.raw_files
           /\ results' = [results EXCEPT !.fetched = dict_set(@, p,
                             [raised |-> r.raised, df |-> r.df, env |-> env])]
           /\ call' = [op |-> "fetch", p |-> p]
    /\ UNCHANGED <<now, registry_file, processed_files, feeds, ncalls>>

RaceNext == RaceConstruct \/ RaceFetch

SpecRace == RaceInit /\ [][RaceNext]_vars

\* run p read the cursor file, fetched rows and wrote the cursor file and
\* the series
FetchedAndSaved(p) ==
    /\ p \in DOMAIN results.fetched
    /\ results.built[p]
    /\ ~results.fetched[p].raised
    /\ results.fetched[p].df # EmptyFrame
    /\ results.fetched[p].env.meta_write_ok
    /\ results.fetched[p].env.raw_write_ok

\* C29: when both runs have fetched and saved rows, the cursor file holds
\* for each of the two instruments the last date that its run fetched
C29_NoCursorUpdateLost ==
    (FetchedAndSaved(1) /\ FetchedAndSaved(2)) =>
        /\ meta_file.exists
        /\ \A p \in 1..2 :
               get_latest_date(meta_file.data, RaceTickers[p]) =
                   strftime(results.fetched[p].df[
                                Len(results.fetched[p].df)].Date)

\* C30: when the persisted series of 7203 is the series as adjusted and a
\* run with full_load=False fetches no rows (and nothing fails), every
\* adjusted row is still in the persisted series after that run's
\* incremental merge
C30_AdjustmentNotReverted ==
    (/\ BacktestIncr(call)
     /\ call.ok
     /\ call.fetched = EmptyFrame
     /\ results # <<>>
     /\ C7203 \in DOMAIN call.before
     /\ call.before[C7203] = results[1]) =>
        FrameRows(results[1]) \subseteq FrameRows(processed_files[C7203])

====
